---- MODULE Spec2Model ----
(***************************************************************************)
(* Model of the pickup timing / quota / access core of pickUpLivery:       *)
(*   app/api/v1/pickups.py   create_pickup and its helpers                 *)
(*   app/api/v1/admin.py     assignment links, weekly cutoff editor        *)
(*   app/db/migrations.py    run_minimal_migrations (startup backfill)     *)
(*                                                                         *)
(* Instants are whole seconds counted from Monday 2025-03-17 00:00:00 UTC. *)
(* The local zone is Europe/Berlin: UTC+1, and UTC+2 between the last      *)
(* Sunday of March 01:00 UTC and the last Sunday of October 01:00 UTC.     *)
(***************************************************************************)
EXTENDS Integers, Sequences, FiniteSets, TLC

\* Python None / SQL NULL of an optional time or instant (all real values are >= 0).
None == -1

Hour == 60 * 60
Day == 24 * Hour

\* Europe/Berlin transitions in the model's year, as UTC instants.
DstStart == 13 * Day + Hour      \* Sun 2025-03-30 01:00 UTC: 02:00 CET -> 03:00 CEST
DstEnd == 223 * Day + Hour       \* Sun 2025-10-26 01:00 UTC: 03:00 CEST -> 02:00 CET

\* time(hour, minute[, second]) as seconds since local midnight.
TimeOfDay(h, m, s) == h * Hour + m * 60 + s

\* An instant given as (day number since the epoch, hh:mm:ss UTC).
At(d, h, m, s) == d * Day + TimeOfDay(h, m, s)

------------------------------------------------------------------------------
(* zoneinfo.ZoneInfo("Europe/Berlin")                                      *)

\* utcoffset of a UTC instant.
UtcOffset(t) == IF DstStart <= t /\ t < DstEnd THEN 2 * Hour ELSE Hour

\* now_utc.astimezone(TZ_DE): the local wall clock reading and its fold flag
\* (fold = 1 only during the second pass through the repeated hour).
ToLocal(t) ==
    [wall |-> t + UtcOffset(t),
     fold |-> IF DstEnd <= t /\ t < DstEnd + Hour THEN 1 ELSE 0]

\* utcoffset of a local wall clock reading (PEP 495): inside the spring gap
\* and the autumn overlap fold = 0 takes the offset in force before the
\* transition and fold = 1 the one after it.
WallOffset(wall, fold) ==
    IF wall < DstStart + Hour THEN Hour
    ELSE IF wall < DstStart + 2 * Hour THEN (IF fold = 0 THEN Hour ELSE 2 * Hour)
    ELSE IF wall < DstEnd + Hour THEN 2 * Hour
    ELSE IF wall < DstEnd + 2 * Hour THEN (IF fold = 0 THEN 2 * Hour ELSE Hour)
    ELSE Hour

\* local.astimezone(timezone.utc)
ToUtc(local) == local.wall - WallOffset(local.wall, local.fold)

\* datetime.weekday(): 0 = Monday ... 6 = Sunday (the epoch is a Monday).
Weekday(wall) == (wall \div Day) % 7

\* datetime.date() as a day number, and the time of day.
DateOf(wall) == wall \div Day
TimeOf(wall) == wall % Day

\* datetime.replace(hour, minute, second, microsecond=0): same date, same fold.
ReplaceTime(local, tod) == [wall |-> DateOf(local.wall) * Day + tod, fold |-> local.fold]

------------------------------------------------------------------------------
(* Helpers of app/api/v1/pickups.py                                        *)

Weekdays == 0 .. 6

\* _get_cutoff_for_pickup(pharmacy, now_utc); schedule is the pharmacy's
\* seven cutoff_*_local columns indexed by weekday.
MutCutoffUtcWeekday(schedule, now_utc) ==
    LET now_local == ToLocal(now_utc)
        cutoff_local_time == schedule[Weekday(now_utc)]
    IN  IF cutoff_local_time = None THEN None
        ELSE ToUtc(ReplaceTime(now_local, cutoff_local_time))

MutCutoffNoLocalDate(schedule, now_utc) ==
    LET now_local == ToLocal(now_utc)
        cutoff_local_time == schedule[Weekday(now_local.wall)]
    IN  IF cutoff_local_time = None THEN None
        ELSE ToUtc([wall |-> DateOf(now_utc) * Day + cutoff_local_time, fold |-> 0])

MutCutoffSundayDefault(schedule, now_utc) ==
    LET now_local == ToLocal(now_utc)
        cutoff_local_time == schedule[Weekday(now_local.wall)]
    IN  IF cutoff_local_time = None
        THEN ToUtc(ReplaceTime(now_local, TimeOfDay(23, 59, 59)))
        ELSE ToUtc(ReplaceTime(now_local, cutoff_local_time))

_get_cutoff_for_pickup(schedule, now_utc) ==
    LET now_local == ToLocal(now_utc)
        weekday == Weekday(now_local.wall)
        cutoff_local_time == schedule[weekday]
    IN  IF cutoff_local_time = None THEN None
        ELSE ToUtc(ReplaceTime(now_local, cutoff_local_time))

MutTimingNoCutoffOnTime(now_utc, cutoff_at_utc) ==
    IF cutoff_at_utc = None \/ now_utc <= cutoff_at_utc THEN "on_time" ELSE "late"

MutTimingBoundaryLate(now_utc, cutoff_at_utc) ==
    IF cutoff_at_utc = None THEN "no_cutoff"
    ELSE IF now_utc >= cutoff_at_utc THEN "late"
    ELSE "on_time"

MutTimingLateSameDayOnly(now_utc, cutoff_at_utc) ==
    IF cutoff_at_utc = None THEN "no_cutoff"
    ELSE IF now_utc > cutoff_at_utc /\ now_utc <= cutoff_at_utc + Day THEN "late"
    ELSE "on_time"

\* _compute_timing_status(now_utc, cutoff_at_utc)
_compute_timing_status(now_utc, cutoff_at_utc) ==
    IF cutoff_at_utc = None THEN "no_cutoff"
    ELSE IF now_utc > cutoff_at_utc THEN "late"
    ELSE "on_time"

MutBoundsLocalDay(now_utc) ==
    [start |-> DateOf(ToLocal(now_utc).wall) * Day - UtcOffset(now_utc),
     end |-> DateOf(ToLocal(now_utc).wall) * Day - UtcOffset(now_utc) + (Day - 1)]

\* _get_utc_today_bounds(): time.min .. time.max of the current UTC date.
_get_utc_today_bounds(now_utc) ==
    [start |-> (now_utc \div Day) * Day, end |-> (now_utc \div Day) * Day + (Day - 1)]

------------------------------------------------------------------------------
(* Users, pharmacies, settings (the rows the handlers read)                *)

\* users.role and users.require_pickup_location: the accounts seeded by
\* app/db/session.py init_db and one account of UserRole.history; "unset" is
\* the NULL override.
Users == {"admin", "driver1", "driver3", "history1"}
Role(u) ==
    CASE u = "admin" -> "admin"
      [] u = "history1" -> "history"
      [] OTHER -> "driver"
SeedGpsModes ==
    [u \in Users |->
        CASE u = "admin" -> "false"
          [] u = "driver1" -> "true"
          [] OTHER -> "unset"]

\* users.is_active: every account is created active.
SeedUsers == [u \in Users |-> TRUE]

\* pharmacies.id and pharmacies.public_id
Pharmacies == {"A1", "B1"}
\* pharmacies.is_active of the seeded pharmacies.
SeedPharmacies == [p \in Pharmacies |-> TRUE]
PublicId(p) == IF p = "A1" THEN "pid-A1" ELSE "pid-B1"

\* select(Pharmacy).where(Pharmacy.public_id == pharmacy_pid).first()
PharmacyByPublicId(pid) ==
    IF \E p \in Pharmacies : PublicId(p) = pid
    THEN CHOOSE p \in Pharmacies : PublicId(p) = pid
    ELSE "missing"

\* Weekly schedules: weekday -> seconds since local midnight, or None.
NoCutoffs == [d \in Weekdays |-> None]
\* The schedule the startup migration backfills (Mon-Fri 15:50, Sat 12:00).
BackfilledCutoffs ==
    [d \in Weekdays |->
        IF d <= 4 THEN TimeOfDay(15, 50, 0)
        ELSE IF d = 5 THEN TimeOfDay(12, 0, 0) ELSE None]

------------------------------------------------------------------------------
(* Form input of POST /pickup/{pharmacy_pid}                               *)

\* An upload slot: "absent" (no part sent), "noname" (part with an empty
\* filename), "empty" (zero bytes), "corrupt" (compress_image raises), "ok".
Slots == 1 .. 4

\* _parse_float_or_none(val): "<none>" stands for a missing form field;
\* float() accepts surrounding blanks; the value is kept in 1/100 degree.
_parse_float_or_none(val) ==
    CASE val = "<none>" -> None
      [] val = "" -> None
      [] val = "52.52" -> 5252
      [] val = " 13.40 " -> 1340
      [] val = "0" -> 0
      [] OTHER -> None

\* comment.strip() if comment else None
CleanComment(comment) ==
    CASE comment = "<none>" -> "<none>"
      [] comment = "" -> "<none>"
      [] comment = " left at door " -> "left at door"
      [] OTHER -> comment

\* provided: the slots sent with a non-empty filename (lines 272-283).
Provided(images) == {i \in Slots : images[i] \notin {"absent", "noname"}}

MutSavedRenumbered(images) == 1 .. Cardinality({i \in Provided(images) : images[i] = "ok"})

MutSavedKeepsUnreadable(images) == {i \in Provided(images) : images[i] # "empty"}

\* The slots whose photo is stored: size > 0 and compress_image succeeds
\* (lines 382-406).
Saved(images) == {i \in Provided(images) : images[i] = "ok"}

MutLimitUnclamped(s) == s.allowed_pickups_per_day

\* limit = max(1, settings.allowed_pickups_per_day or 1)
EffectiveLimit(s) ==
    LET v == IF s.allowed_pickups_per_day = None \/ s.allowed_pickups_per_day = 0
             THEN 1 ELSE s.allowed_pickups_per_day
    IN  IF v > 1 THEN v ELSE 1

\* min_photos = max(0, settings.min_required_photos or 0)
MinPhotos(s) ==
    LET v == IF s.min_required_photos = None THEN 0 ELSE s.min_required_photos
    IN  IF v > 0 THEN v ELSE 0

------------------------------------------------------------------------------
(* State                                                                   *)

VARIABLES
    now,        \* the wall clock read by datetime.now(timezone.utc)
    cutoffs,    \* pharmacies.cutoff_*_local: pharmacy -> weekday -> time or None
    links,      \* UserPharmacyLink rows: <<user_id, pharmacy_id>>
    settings,   \* the AppSettings row (id = 1)
    pickups,    \* committed Pickup rows with their PickupPhoto rows, by id
    inflight,   \* create_pickup calls (of server processes sharing the database)
                \* that passed the checks and have not yet persisted
    resp,       \* the response of the handler that finished last
    overlapped, \* history: (driver, pharmacy) pairs that ever had two calls in flight at once
    fin,        \* input of the helper under test (helper specifications only)
    fout,       \* its result
    gps_mode,   \* users.require_pickup_location: user -> "true", "false" or "unset"
    user_rows,  \* users.is_active of the users rows that exist, by id
    pharmacy_rows   \* pharmacies.is_active of the pharmacies rows that exist, by id

vars == <<now, cutoffs, links, settings, pickups, inflight, resp, overlapped, fin, fout,
          gps_mode, user_rows, pharmacy_rows>>

MutCurrentUserIgnoresActive(u) == u \in DOMAIN user_rows

\* get_current_user: the users row the user_id cookie names, when it exists
\* and is active; otherwise 401 (the bootstrap of a first admin needs an empty
\* users table, which never occurs once an account exists).
get_current_user(u) == u \in DOMAIN user_rows /\ user_rows[u]

\* user.require_pickup_location of the row get_current_user loaded.
RequirePickupLocation(u) == gps_mode[u]

MutGpsGlobalWins(u, s) ==
    IF s.require_pickup_location_global THEN TRUE
    ELSE RequirePickupLocation(u) = "true"

\* _resolve_gps_requirement(user, settings)
_resolve_gps_requirement(u, s) ==
    IF RequirePickupLocation(u) # "unset"
    THEN RequirePickupLocation(u) = "true"
    ELSE s.require_pickup_location_global

\* Bounds of the model.
MaxPickups == 3
MaxInFlight == 2

NoResp == [handler |-> "none", user |-> "none", pharmacy |-> "none", code |-> 0,
           at |-> 0, count |-> 0, limit |-> 0, error |-> "none", listed |-> {}]

Response(handler, u, p, code) ==
    [handler |-> handler, user |-> u, pharmacy |-> p, code |-> code,
     at |-> now, count |-> 0, limit |-> 0, error |-> "none", listed |-> {}]

\* func.count(Pickup.id) WHERE user_id, pharmacy_id, created_at BETWEEN start AND end
MutCountAnyDriver(rows, u, p, bounds) ==
    Cardinality({i \in DOMAIN rows :
        /\ rows[i].pharmacy_id = p
        /\ rows[i].created_at >= bounds.start
        /\ rows[i].created_at <= bounds.end})

MutCountAnyDay(rows, u, p, bounds) ==
    Cardinality({i \in DOMAIN rows :
        /\ rows[i].user_id = u
        /\ rows[i].pharmacy_id = p})

CountToday(rows, u, p, bounds) ==
    Cardinality({i \in DOMAIN rows :
        /\ rows[i].user_id = u
        /\ rows[i].pharmacy_id = p
        /\ rows[i].created_at >= bounds.start
        /\ rows[i].created_at <= bounds.end})

MutAccessEveryone(u, p, lk) == TRUE

MutAccessAnyLink(u, p, lk) ==
    Role(u) = "admin" \/ \E q \in Pharmacies : <<u, q>> \in lk

\* _ensure_user_can_access_pharmacy(session, user, pharmacy): TRUE when it returns,
\* FALSE when it raises 403.
_ensure_user_can_access_pharmacy(u, p, lk) ==
    Role(u) = "admin" \/ <<u, p>> \in lk

MutQuotaOffByOne(current_count, limit) == current_count > limit

\* if current_count >= limit: 429
QuotaReached(current_count, limit) == current_count >= limit

------------------------------------------------------------------------------
(* POST /pickup/{pharmacy_pid}: create_pickup                              *)

MutCheckQuotaBeforeGps(u, pid, form) ==
    LET pharmacy == PharmacyByPublicId(pid)
        require_location == _resolve_gps_requirement(u, settings)
        provided == Provided(form.images)
        min_photos == MinPhotos(settings)
        latitude == _parse_float_or_none(form.lat)
        longitude == _parse_float_or_none(form.lon)
        limit == EffectiveLimit(settings)
        bounds == _get_utc_today_bounds(now)
        current_count == CountToday(pickups, u, pharmacy, bounds)
        Reject(code, error) ==
            /\ resp' = [Response("create_pickup", u, pharmacy, code)
                           EXCEPT !.count = current_count, !.limit = limit,
                                  !.error = error]
            /\ UNCHANGED <<inflight, overlapped>>
    IN  /\ Len(inflight) < MaxInFlight
        /\ IF ~get_current_user(u) THEN Reject(401, "Not logged in")
           ELSE IF pharmacy = "missing" \/ pharmacy \notin DOMAIN pharmacy_rows
                THEN Reject(404, "Pharmacy not found")
           ELSE IF ~_ensure_user_can_access_pharmacy(u, pharmacy, links)
                THEN Reject(403, "Not allowed to access this pharmacy.")
           ELSE IF Cardinality(provided) < min_photos
                THEN Reject(422, "At least min_photos photo(s) are required.")
           ELSE IF QuotaReached(current_count, limit)
                THEN Reject(429, "Daily pickup limit reached for this pharmacy and driver.")
           ELSE IF require_location /\ (latitude = None \/ longitude = None)
                THEN Reject(422, "Location (latitude and longitude) is required for this pickup.")
           ELSE /\ Len(pickups) + Len(inflight) < MaxPickups
                /\ inflight' = Append(inflight,
                       [user |-> u, pharmacy |-> pharmacy, schedule |-> cutoffs[pharmacy],
                        is_active |-> pharmacy_rows[pharmacy],
                        images |-> form.images, latitude |-> latitude,
                        longitude |-> longitude, comment |-> CleanComment(form.comment),
                        min_photos |-> min_photos, limit |-> limit,
                        current_count |-> current_count, checked_at |-> now])
                /\ overlapped' =
                       IF \E k \in DOMAIN inflight :
                              inflight[k].user = u /\ inflight[k].pharmacy = pharmacy
                       THEN overlapped \cup {<<u, pharmacy>>}
                       ELSE overlapped
                /\ UNCHANGED resp
        /\ UNCHANGED <<now, cutoffs, links, settings, pickups, fin, fout, gps_mode, user_rows, pharmacy_rows>>

\* The get_current_user dependency, then lines 261-352: pharmacy lookup, access
\* gate, photo minimum, GPS, daily quota.
\* Every rejection returns here and writes nothing. A call that passes keeps
\* the rows it has loaded (pharmacy, settings) and goes on to persist.
create_pickup_check(u, pid, form) ==
    LET pharmacy == PharmacyByPublicId(pid)
        require_location == _resolve_gps_requirement(u, settings)
        provided == Provided(form.images)
        min_photos == MinPhotos(settings)
        latitude == _parse_float_or_none(form.lat)
        longitude == _parse_float_or_none(form.lon)
        limit == EffectiveLimit(settings)
        bounds == _get_utc_today_bounds(now)
        current_count == CountToday(pickups, u, pharmacy, bounds)
        Reject(code, error) ==
            /\ resp' = [Response("create_pickup", u, pharmacy, code)
                           EXCEPT !.count = current_count, !.limit = limit,
                                  !.error = error]
            /\ UNCHANGED <<inflight, overlapped>>
    IN  /\ Len(inflight) < MaxInFlight
        /\ IF ~get_current_user(u) THEN Reject(401, "Not logged in")
           ELSE IF pharmacy = "missing" \/ pharmacy \notin DOMAIN pharmacy_rows
                THEN Reject(404, "Pharmacy not found")
           ELSE IF ~_ensure_user_can_access_pharmacy(u, pharmacy, links)
                THEN Reject(403, "Not allowed to access this pharmacy.")
           ELSE IF Cardinality(provided) < min_photos
                THEN Reject(422, "At least min_photos photo(s) are required.")
           ELSE IF require_location /\ (latitude = None \/ longitude = None)
                THEN Reject(422, "Location (latitude and longitude) is required for this pickup.")
           ELSE IF QuotaReached(current_count, limit)
                THEN Reject(429, "Daily pickup limit reached for this pharmacy and driver.")
           ELSE /\ Len(pickups) + Len(inflight) < MaxPickups
                /\ inflight' = Append(inflight,
                       [user |-> u, pharmacy |-> pharmacy, schedule |-> cutoffs[pharmacy],
                        is_active |-> pharmacy_rows[pharmacy],
                        images |-> form.images, latitude |-> latitude,
                        longitude |-> longitude, comment |-> CleanComment(form.comment),
                        min_photos |-> min_photos, limit |-> limit,
                        current_count |-> current_count, checked_at |-> now])
                /\ overlapped' =
                       IF \E k \in DOMAIN inflight :
                              inflight[k].user = u /\ inflight[k].pharmacy = pharmacy
                       THEN overlapped \cup {<<u, pharmacy>>}
                       ELSE overlapped
                /\ UNCHANGED resp
        /\ UNCHANGED <<now, cutoffs, links, settings, pickups, fin, fout, gps_mode, user_rows, pharmacy_rows>>

RemoveAt(seq, k) == [j \in 1 .. (Len(seq) - 1) |-> IF j < k THEN seq[j] ELSE seq[j + 1]]

\* The Pickup row built at lines 358-375, with the photos stored for it.
NewPickup(r, now_utc) ==
    LET cutoff_at_utc == _get_cutoff_for_pickup(r.schedule, now_utc)
        timing_status == _compute_timing_status(now_utc, cutoff_at_utc)
    IN  [user_id |-> r.user, pharmacy_id |-> r.pharmacy,
         latitude |-> r.latitude, longitude |-> r.longitude, comment |-> r.comment,
         status |-> "done", created_at |-> now_utc,
         cutoff_at_utc |-> cutoff_at_utc, timing_status |-> timing_status,
         photos |-> Saved(r.images)]

MutPersistNoRollback(k) ==
    /\ k \in DOMAIN inflight
    /\ Len(pickups) < MaxPickups
    /\ pickups' = Append(pickups, NewPickup(inflight[k], now))
    /\ resp' = [Response("create_pickup", inflight[k].user, inflight[k].pharmacy,
                         IF NewPickup(inflight[k], now).photos = {}
                            /\ inflight[k].min_photos > 0 THEN 422 ELSE 200)
                    EXCEPT !.count = inflight[k].current_count, !.limit = inflight[k].limit,
                           !.at = inflight[k].checked_at]
    /\ inflight' = RemoveAt(inflight, k)
    /\ UNCHANGED <<now, cutoffs, links, settings, overlapped, fin, fout, gps_mode, user_rows, pharmacy_rows>>

\* Lines 358-444: read the clock, resolve the cutoff, classify, insert the
\* pickup and its photos, then commit, or roll back when no photo survived.
create_pickup_persist(k) ==
    /\ k \in DOMAIN inflight
    /\ LET r == inflight[k]
           row == NewPickup(r, now)
           saved_count == Cardinality(row.photos)
       IN  IF r.user \notin DOMAIN user_rows \/ r.pharmacy \notin DOMAIN pharmacy_rows
           THEN \* session.flush(): the INSERT breaks a foreign key of pickups
                /\ resp' = [Response("create_pickup", r.user, r.pharmacy, 500)
                                EXCEPT !.count = r.current_count, !.limit = r.limit]
                /\ UNCHANGED pickups
           ELSE IF saved_count = 0 /\ r.min_photos > 0
           THEN /\ resp' = [Response("create_pickup", r.user, r.pharmacy, 422)
                                EXCEPT !.count = r.current_count, !.limit = r.limit,
                                       !.error = "None of the uploaded photos could be processed."]
                /\ UNCHANGED pickups
           ELSE /\ Len(pickups) < MaxPickups
                /\ pickups' = Append(pickups, row)
                /\ resp' = [Response("create_pickup", r.user, r.pharmacy, 200)
                                EXCEPT !.count = r.current_count, !.limit = r.limit,
                                       !.at = r.checked_at]
    /\ inflight' = RemoveAt(inflight, k)
    /\ UNCHANGED <<now, cutoffs, links, settings, overlapped, fin, fout, gps_mode, user_rows, pharmacy_rows>>

\* Time passes between two reads of the clock.
Tick(t) ==
    /\ t > now
    /\ now' = t
    /\ UNCHANGED <<cutoffs, links, settings, pickups, inflight, resp, overlapped, fin, fout, gps_mode, user_rows, pharmacy_rows>>

\* GET /pickup/photos/{photo_id}. A stored photo is named by the pickup it
\* belongs to and its slot; every stored photo has image_bytes. The answer
\* carries the photo in listed.
get_pickup_photo(u, i, idx) ==
    LET found == i \in DOMAIN pickups /\ idx \in pickups[i].photos
    IN  /\ IF ~get_current_user(u)
           THEN resp' = Response("get_pickup_photo", u, "none", 401)
           ELSE IF ~found
           THEN resp' = Response("get_pickup_photo", u, "none", 404)
           ELSE IF /\ Role(u) \notin {"admin", "history"}
                   /\ ~_ensure_user_can_access_pharmacy(u, pickups[i].pharmacy_id, links)
           THEN resp' = Response("get_pickup_photo", u, pickups[i].pharmacy_id, 403)
           ELSE resp' = [Response("get_pickup_photo", u, pickups[i].pharmacy_id, 200)
                            EXCEPT !.listed = {<<i, idx>>}]
        /\ UNCHANGED <<now, cutoffs, links, settings, pickups, inflight, overlapped,
                       fin, fout, gps_mode, user_rows, pharmacy_rows>>

------------------------------------------------------------------------------
(* app/api/v1/pages.py                                                     *)

\* tasks_page: the pharmacies listed for the user, the active ones linked to
\* the account.
TasksPharmacies(u) ==
    {p \in DOMAIN pharmacy_rows : <<u, p>> \in links /\ pharmacy_rows[p]}

\* "<none>" is a filter left empty.
NoFilter == "<none>"

\* The rows of the history query (steps 3 and 4) for a caller and the
\* pharmacy_id and driver_id filters.
HistoryRows(u, pid, did) ==
    LET is_admin == Role(u) = "admin"
    IN  {i \in DOMAIN pickups :
            /\ pid # NoFilter => pickups[i].pharmacy_id = pid
            /\ (did # NoFilter /\ is_admin) => pickups[i].user_id = did
            /\ ~is_admin => pickups[i].user_id = u}

\* GET /history. For a driver the handler reads settings.show_history_to_drivers,
\* which the AppSettings model does not declare: the read fails (500), or,
\* where the attribute is there, its value decides between the 403 page and
\* the driver's own rows.
history_page(u, pid, did) ==
    /\ IF ~get_current_user(u)
       THEN resp' = Response("history_page", u, pid, 401)
       ELSE IF Role(u) = "driver"
       THEN \/ resp' = Response("history_page", u, pid, 500)
            \/ resp' = Response("history_page", u, pid, 403)
            \/ resp' = [Response("history_page", u, pid, 200)
                           EXCEPT !.listed = HistoryRows(u, pid, did)]
       ELSE resp' = [Response("history_page", u, pid, 200)
                        EXCEPT !.listed = HistoryRows(u, pid, did)]
    /\ UNCHANGED <<now, cutoffs, links, settings, pickups, inflight, overlapped,
                   fin, fout, gps_mode, user_rows, pharmacy_rows>>

------------------------------------------------------------------------------
(* app/api/v1/admin.py                                                     *)

\* _parse_local_hhmm(value). A text field is modelled by what split(":", 1)
\* and int() make of it: <<>> is an empty or blank field, <<hh, mm>> a field
\* "hh:mm" of two integers, <<n>> a field without a colon. ParseError stands
\* for the ValueError.
ParseError == -2
_parse_local_hhmm(value) ==
    IF Len(value) = 0 THEN None
    ELSE IF Len(value) # 2 THEN ParseError
    ELSE IF ~(0 <= value[1] /\ value[1] <= 23 /\ 0 <= value[2] /\ value[2] <= 59)
         THEN ParseError
    ELSE TimeOfDay(value[1], value[2], 0)

\* require_admin(current)
require_admin(current) == Role(current) = "admin"

MutAssignAllPharmacies(pharmacy_id, user_id, lk) ==
    lk \cup {<<user_id, q>> : q \in Pharmacies}

\* The link rows after admin_assign_driver_to_pharmacy_path found user and pharmacy.
AssignLink(pharmacy_id, user_id, lk) == lk \cup {<<user_id, pharmacy_id>>}

MutUnassignKeeps(pharmacy_id, user_id, lk) == lk

\* The link rows after admin_unassign_driver_from_pharmacy found the pharmacy.
UnassignLink(pharmacy_id, user_id, lk) == lk \ {<<user_id, pharmacy_id>>}

\* POST /admin/pharmacies/{pharmacy_id}/assign
admin_assign_driver_to_pharmacy_path(current, pharmacy_id, user_id) ==
    /\ IF ~get_current_user(current)
       THEN /\ resp' = Response("admin_assign", current, pharmacy_id, 401)
            /\ UNCHANGED links
       ELSE IF ~require_admin(current)
       THEN /\ resp' = Response("admin_assign", current, pharmacy_id, 403)
            /\ UNCHANGED links
       ELSE IF user_id \notin DOMAIN user_rows \/ pharmacy_id \notin DOMAIN pharmacy_rows
       THEN /\ resp' = Response("admin_assign", current, pharmacy_id, 404)
            /\ UNCHANGED links
       ELSE /\ links' = AssignLink(pharmacy_id, user_id, links)
            /\ resp' = Response("admin_assign", current, pharmacy_id, 200)
    /\ UNCHANGED <<now, cutoffs, settings, pickups, inflight, overlapped, fin, fout, gps_mode, user_rows, pharmacy_rows>>

\* POST /admin/pharmacies/{pharmacy_id}/unassign
admin_unassign_driver_from_pharmacy(current, pharmacy_id, user_id) ==
    /\ IF ~get_current_user(current)
       THEN /\ resp' = Response("admin_unassign", current, pharmacy_id, 401)
            /\ UNCHANGED links
       ELSE IF ~require_admin(current)
       THEN /\ resp' = Response("admin_unassign", current, pharmacy_id, 403)
            /\ UNCHANGED links
       ELSE IF pharmacy_id \notin DOMAIN pharmacy_rows
       THEN /\ resp' = Response("admin_unassign", current, pharmacy_id, 404)
            /\ UNCHANGED links
       ELSE /\ links' = UnassignLink(pharmacy_id, user_id, links)
            /\ resp' = Response("admin_unassign", current, pharmacy_id, 200)
    /\ UNCHANGED <<now, cutoffs, settings, pickups, inflight, overlapped, fin, fout, gps_mode, user_rows, pharmacy_rows>>

MutCutoffsReclassify(current, pharmacy_id, form) ==
    /\ require_admin(current)
    /\ pharmacy_id \in Pharmacies
    /\ \A d \in Weekdays : _parse_local_hhmm(form[d]) # ParseError
    /\ cutoffs' = [cutoffs EXCEPT
                      ![pharmacy_id] = [d \in Weekdays |-> _parse_local_hhmm(form[d])]]
    /\ pickups' = [i \in DOMAIN pickups |->
                      IF pickups[i].pharmacy_id # pharmacy_id THEN pickups[i]
                      ELSE LET c == _get_cutoff_for_pickup(cutoffs'[pharmacy_id],
                                                           pickups[i].created_at)
                           IN  [pickups[i] EXCEPT
                                   !.cutoff_at_utc = c,
                                   !.timing_status =
                                       _compute_timing_status(pickups[i].created_at, c)]]
    /\ resp' = Response("admin_cutoffs", current, pharmacy_id, 200)
    /\ UNCHANGED <<now, links, settings, inflight, overlapped, fin, fout, gps_mode, user_rows, pharmacy_rows>>

MutCutoffsPartialWrite(current, pharmacy_id, form) ==
    /\ require_admin(current)
    /\ pharmacy_id \in Pharmacies
    /\ cutoffs' = [cutoffs EXCEPT
                      ![pharmacy_id] =
                          [d \in Weekdays |->
                              IF \E e \in 0 .. d : _parse_local_hhmm(form[e]) = ParseError
                              THEN cutoffs[pharmacy_id][d]
                              ELSE _parse_local_hhmm(form[d])]]
    /\ resp' = Response("admin_cutoffs", current, pharmacy_id,
                        IF \E d \in Weekdays : _parse_local_hhmm(form[d]) = ParseError
                        THEN 400 ELSE 200)
    /\ UNCHANGED <<now, links, settings, pickups, inflight, overlapped, fin, fout, gps_mode, user_rows, pharmacy_rows>>

\* POST /admin/pharmacies/{pharmacy_id}/cutoffs; form is the seven text
\* fields mon .. sun indexed by weekday.
admin_update_pharmacy_cutoffs(current, pharmacy_id, form) ==
    /\ IF ~get_current_user(current)
       THEN /\ resp' = Response("admin_cutoffs", current, pharmacy_id, 401)
            /\ UNCHANGED cutoffs
       ELSE IF ~require_admin(current)
       THEN /\ resp' = Response("admin_cutoffs", current, pharmacy_id, 403)
            /\ UNCHANGED cutoffs
       ELSE IF pharmacy_id \notin DOMAIN pharmacy_rows
       THEN /\ resp' = Response("admin_cutoffs", current, pharmacy_id, 404)
            /\ UNCHANGED cutoffs
       ELSE IF \E d \in Weekdays : _parse_local_hhmm(form[d]) = ParseError
       THEN /\ resp' = Response("admin_cutoffs", current, pharmacy_id, 400)
            /\ UNCHANGED cutoffs
       ELSE /\ cutoffs' = [cutoffs EXCEPT
                              ![pharmacy_id] = [d \in Weekdays |-> _parse_local_hhmm(form[d])]]
            /\ resp' = Response("admin_cutoffs", current, pharmacy_id, 200)
    /\ UNCHANGED <<now, links, settings, pickups, inflight, overlapped, fin, fout, gps_mode, user_rows, pharmacy_rows>>

\* POST /admin/users/{user_id}/gps: "inherit", "require" or "no" sets the
\* user's override; any other mode is answered 400.
admin_set_user_gps_mode(current, user_id, mode) ==
    /\ IF ~get_current_user(current)
       THEN /\ resp' = Response("admin_gps", current, "none", 401)
            /\ UNCHANGED gps_mode
       ELSE IF ~require_admin(current)
       THEN /\ resp' = Response("admin_gps", current, "none", 403)
            /\ UNCHANGED gps_mode
       ELSE IF user_id \notin DOMAIN user_rows
       THEN /\ resp' = Response("admin_gps", current, "none", 404)
            /\ UNCHANGED gps_mode
       ELSE IF mode \notin {"inherit", "require", "no"}
       THEN /\ resp' = Response("admin_gps", current, "none", 400)
            /\ UNCHANGED gps_mode
       ELSE /\ gps_mode' = [gps_mode EXCEPT ![user_id] =
                               CASE mode = "inherit" -> "unset"
                                 [] mode = "require" -> "true"
                                 [] mode = "no" -> "false"]
            /\ resp' = Response("admin_gps", current, "none", 200)
    /\ UNCHANGED <<now, cutoffs, links, settings, pickups, inflight, overlapped, fin, fout, user_rows, pharmacy_rows>>

\* POST /admin/settings. The handler also assigns show_history_to_drivers,
\* an attribute the AppSettings model does not declare: where the model
\* class refuses the assignment the call ends in an internal error (500)
\* before the commit, otherwise the row is updated.
admin_update_settings(current, form) ==
    /\ IF ~get_current_user(current)
       THEN /\ resp' = Response("admin_settings", current, "none", 401)
            /\ UNCHANGED settings
       ELSE IF ~require_admin(current)
       THEN /\ resp' = Response("admin_settings", current, "none", 403)
            /\ UNCHANGED settings
       ELSE \/ /\ settings' =
                    [allowed_pickups_per_day |->
                         IF form.allowed_pickups_per_day > 1
                         THEN form.allowed_pickups_per_day ELSE 1,
                     require_pickup_location_global |-> form.require_pickup_location_global,
                     min_required_photos |->
                         IF form.min_required_photos > 0 THEN form.min_required_photos ELSE 0,
                     photo_source_mode |->
                         IF form.photo_source_mode \in {"camera_only", "camera_or_upload"}
                         THEN form.photo_source_mode ELSE "camera_or_upload"]
               /\ resp' = Response("admin_settings", current, "none", 303)
            \/ /\ resp' = Response("admin_settings", current, "none", 500)
               /\ UNCHANGED settings
    /\ UNCHANGED <<now, cutoffs, links, pickups, inflight, overlapped, fin, fout, gps_mode, user_rows, pharmacy_rows>>

\* POST /admin/users/{user_id}/toggle-active
admin_toggle_user_active_path(current, user_id) ==
    /\ IF ~get_current_user(current)
       THEN /\ resp' = Response("admin_toggle_user", current, "none", 401)
            /\ UNCHANGED user_rows
       ELSE IF ~require_admin(current)
       THEN /\ resp' = Response("admin_toggle_user", current, "none", 403)
            /\ UNCHANGED user_rows
       ELSE IF user_id \notin DOMAIN user_rows
       THEN /\ resp' = Response("admin_toggle_user", current, "none", 404)
            /\ UNCHANGED user_rows
       ELSE IF user_id = current
       THEN /\ resp' = [Response("admin_toggle_user", current, "none", 400)
                           EXCEPT !.error = "You cannot deactivate yourself"]
            /\ UNCHANGED user_rows
       ELSE /\ user_rows' = [user_rows EXCEPT ![user_id] = ~user_rows[user_id]]
            /\ resp' = Response("admin_toggle_user", current, "none", 200)
    /\ UNCHANGED <<now, cutoffs, links, settings, pickups, inflight, overlapped, fin, fout, gps_mode, pharmacy_rows>>

\* The rows left in a table after session.delete(row).
DeleteRow(rows, id) == [r \in DOMAIN rows \ {id} |-> rows[r]]

MutDeleteUserIgnoresPickups(current, user_id) ==
    /\ get_current_user(current)
    /\ require_admin(current)
    /\ user_id \in DOMAIN user_rows
    /\ user_id # current
    /\ \A l \in links : l[1] # user_id
    /\ user_rows' = DeleteRow(user_rows, user_id)
    /\ resp' = Response("admin_delete_user", current, "none", 200)
    /\ UNCHANGED <<now, cutoffs, links, settings, pickups, inflight, overlapped, fin, fout, gps_mode, pharmacy_rows>>

\* POST /admin/users/{user_id}/delete
admin_delete_user(current, user_id) ==
    LET pickups_count == Cardinality({i \in DOMAIN pickups : pickups[i].user_id = user_id})
        links_count == Cardinality({l \in links : l[1] = user_id})
    IN  /\ IF ~get_current_user(current)
           THEN /\ resp' = Response("admin_delete_user", current, "none", 401)
                /\ UNCHANGED user_rows
           ELSE IF ~require_admin(current)
           THEN /\ resp' = Response("admin_delete_user", current, "none", 403)
                /\ UNCHANGED user_rows
           ELSE IF user_id \notin DOMAIN user_rows
           THEN /\ resp' = Response("admin_delete_user", current, "none", 404)
                /\ UNCHANGED user_rows
           ELSE IF user_id = current
           THEN /\ resp' = [Response("admin_delete_user", current, "none", 400)
                               EXCEPT !.error = "You cannot delete yourself"]
                /\ UNCHANGED user_rows
           ELSE IF pickups_count > 0 \/ links_count > 0
           THEN /\ resp' = [Response("admin_delete_user", current, "none", 400)
                               EXCEPT !.error =
                                   "Cannot delete user with pickups or pharmacy assignments"]
                /\ UNCHANGED user_rows
           ELSE /\ user_rows' = DeleteRow(user_rows, user_id)
                /\ resp' = Response("admin_delete_user", current, "none", 200)
        /\ UNCHANGED <<now, cutoffs, links, settings, pickups, inflight, overlapped, fin, fout, gps_mode, pharmacy_rows>>

\* POST /admin/pharmacies/{pharmacy_id}/toggle
admin_toggle_pharmacy_active_path(current, pharmacy_id) ==
    /\ IF ~get_current_user(current)
       THEN /\ resp' = Response("admin_toggle_pharmacy", current, pharmacy_id, 401)
            /\ UNCHANGED pharmacy_rows
       ELSE IF ~require_admin(current)
       THEN /\ resp' = Response("admin_toggle_pharmacy", current, pharmacy_id, 403)
            /\ UNCHANGED pharmacy_rows
       ELSE IF pharmacy_id \notin DOMAIN pharmacy_rows
       THEN /\ resp' = Response("admin_toggle_pharmacy", current, pharmacy_id, 404)
            /\ UNCHANGED pharmacy_rows
       ELSE /\ pharmacy_rows' =
                   [pharmacy_rows EXCEPT ![pharmacy_id] = ~pharmacy_rows[pharmacy_id]]
            /\ resp' = Response("admin_toggle_pharmacy", current, pharmacy_id, 200)
    /\ UNCHANGED <<now, cutoffs, links, settings, pickups, inflight, overlapped, fin, fout, gps_mode, user_rows>>

\* POST /admin/pharmacies/{pharmacy_id}/delete
admin_delete_pharmacy(current, pharmacy_id) ==
    LET pickups_count ==
            Cardinality({i \in DOMAIN pickups : pickups[i].pharmacy_id = pharmacy_id})
        links_count == Cardinality({l \in links : l[2] = pharmacy_id})
    IN  /\ IF ~get_current_user(current)
           THEN /\ resp' = Response("admin_delete_pharmacy", current, pharmacy_id, 401)
                /\ UNCHANGED pharmacy_rows
           ELSE IF ~require_admin(current)
           THEN /\ resp' = Response("admin_delete_pharmacy", current, pharmacy_id, 403)
                /\ UNCHANGED pharmacy_rows
           ELSE IF pharmacy_id \notin DOMAIN pharmacy_rows
           THEN /\ resp' = Response("admin_delete_pharmacy", current, pharmacy_id, 404)
                /\ UNCHANGED pharmacy_rows
           ELSE IF pickups_count > 0 \/ links_count > 0
           THEN /\ resp' = [Response("admin_delete_pharmacy", current, pharmacy_id, 400)
                               EXCEPT !.error =
                                   "Cannot delete pharmacy with pickups or user assignments"]
                /\ UNCHANGED pharmacy_rows
           ELSE /\ pharmacy_rows' = DeleteRow(pharmacy_rows, pharmacy_id)
                /\ resp' = Response("admin_delete_pharmacy", current, pharmacy_id, 200)
        /\ UNCHANGED <<now, cutoffs, links, settings, pickups, inflight, overlapped, fin, fout, gps_mode, user_rows>>

------------------------------------------------------------------------------
(* app/db/migrations.py: run_minimal_migrations at application startup     *)
(* The database session's TimeZone is taken to be UTC, the setting under   *)
(* which created_at and cutoff_at_utc hold UTC readings.                   *)

\* PostgreSQL's <timestamp> AT TIME ZONE 'Europe/Berlin': the instant at which
\* the Berlin wall clock shows the given reading; a reading in the spring gap
\* is taken with the offset before the transition, one in the autumn overlap
\* with the offset after it.
PgAtTimeZoneBerlin(ts) ==
    LET fold == IF DstEnd + Hour <= ts /\ ts < DstEnd + 2 * Hour THEN 1 ELSE 0
    IN  ts - WallOffset(ts, fold)

MutBackfillSundayFromSaturday(schedule) ==
    [d \in Weekdays |->
        IF schedule[d] # None THEN schedule[d]
        ELSE IF d <= 4 THEN TimeOfDay(15, 50, 0)
        ELSE IF d = 5 THEN TimeOfDay(12, 0, 0)
        ELSE schedule[5]]

\* Step 3a: COALESCE(cutoff_x_local, default) for Monday .. Saturday.
BackfillSchedule(schedule) ==
    [d \in Weekdays |->
        IF schedule[d] # None THEN schedule[d]
        ELSE IF d <= 4 THEN TimeOfDay(15, 50, 0)
        ELSE IF d = 5 THEN TimeOfDay(12, 0, 0)
        ELSE None]

\* Step 4a, the subquery: the cutoff_at_utc computed for a row from created_at
\* and the pharmacy's schedule.
BackfillCutoff(schedule, created_at) ==
    LET shown == PgAtTimeZoneBerlin(created_at)   \* p.created_at AT TIME ZONE 'Europe/Berlin'
        local_date == DateOf(shown)                  \* (...)::date
        local_dow == (Weekday(shown) + 1) % 7        \* EXTRACT(DOW ...): 0 = Sunday
        cutoff_time_local ==
            CASE local_dow = 1 -> schedule[0]
              [] local_dow = 2 -> schedule[1]
              [] local_dow = 3 -> schedule[2]
              [] local_dow = 4 -> schedule[3]
              [] local_dow = 5 -> schedule[4]
              [] local_dow = 6 -> schedule[5]
              [] local_dow = 0 -> schedule[6]
    IN  IF cutoff_time_local = None THEN None
        ELSE PgAtTimeZoneBerlin(local_date * Day + cutoff_time_local)

\* Step 4a, the CASE of the UPDATE.
BackfillStatus(created_at, cutoff_at_utc) ==
    IF cutoff_at_utc = None THEN "no_cutoff"
    ELSE IF created_at <= cutoff_at_utc THEN "on_time"
    ELSE "late"

\* Step 4a, the WHERE clause: the rows the backfill rewrites.
BackfillTouches(row) == row.cutoff_at_utc = None

\* Step 3a over every pharmacies row.
MigratedSchedules(c) == [p \in Pharmacies |-> BackfillSchedule(c[p])]

\* Step 4a over every pickups row, reading the schedules step 3a left.
MigratedPickups(c, rows) ==
    LET Rewrite(row) ==
            LET cutoff_at_utc == BackfillCutoff(c[row.pharmacy_id], row.created_at)
            IN  [row EXCEPT !.cutoff_at_utc = cutoff_at_utc,
                            !.timing_status = BackfillStatus(row.created_at, cutoff_at_utc)]
    IN  [i \in DOMAIN rows |->
            IF BackfillTouches(rows[i]) THEN Rewrite(rows[i]) ELSE rows[i]]

run_minimal_migrations ==
    /\ cutoffs' = MigratedSchedules(cutoffs)
    /\ pickups' = MigratedPickups(MigratedSchedules(cutoffs), pickups)
    /\ UNCHANGED <<now, links, settings, inflight, resp, overlapped, fin, fout, gps_mode, user_rows, pharmacy_rows>>

------------------------------------------------------------------------------
(* Inputs the specifications draw from                                     *)

\* Submitted forms.
FormComplete ==
    [images |-> <<"ok", "absent", "absent", "absent">>,
     lat |-> "52.52", lon |-> " 13.40 ", comment |-> " left at door "]

FormNoGps == [FormComplete EXCEPT !.lat = "<none>", !.lon = "<none>"]
FormBadGps == [FormComplete EXCEPT !.lat = "abc", !.lon = ""]
FormZeroGps == [FormComplete EXCEPT !.lat = "0", !.lon = "0"]
FormNothing ==
    [images |-> <<"absent", "absent", "absent", "absent">>,
     lat |-> "<none>", lon |-> "<none>", comment |-> "<none>"]

\* Upload slots image1 .. image4 of a submission with coordinates.
FormSlots13 == [FormComplete EXCEPT !.images = <<"ok", "absent", "ok", "absent">>]
FormFour == [FormComplete EXCEPT !.images = <<"ok", "ok", "ok", "ok">>]
FormOneGoodOneEmpty == [FormComplete EXCEPT !.images = <<"ok", "empty", "absent", "absent">>]
FormAllUnusable == [FormComplete EXCEPT !.images = <<"corrupt", "empty", "noname", "absent">>]
FormOneCorrupt == [FormComplete EXCEPT !.images = <<"corrupt", "ok", "absent", "ok">>]
FormNoPhotos == [FormComplete EXCEPT !.images = <<"absent", "absent", "noname", "absent">>]

\* Forms of the settings page: allowed_pickups_per_day, the global GPS flag
\* and min_required_photos as the admin typed them.
SettingsForm(allowed, gps, photos) ==
    [allowed_pickups_per_day |-> allowed, require_pickup_location_global |-> gps,
     min_required_photos |-> photos, photo_source_mode |-> "camera_only"]

\* Text fields of the weekly cutoff editor, mon .. sun.
EditorClear == [d \in Weekdays |-> <<>>]
EditorWeek ==
    [d \in Weekdays |-> IF d <= 4 THEN <<15, 50>> ELSE IF d = 5 THEN <<12, 0>> ELSE <<>>]
EditorEarly == [d \in Weekdays |-> <<14, 0>>]
EditorBadHour == [d \in Weekdays |-> IF d = 2 THEN <<24, 0>> ELSE <<9, 30>>]
EditorNoColon == [d \in Weekdays |-> IF d = 6 THEN <<1550>> ELSE <<>>]
EditorForms == {EditorClear, EditorWeek, EditorEarly, EditorBadHour, EditorNoColon}
EditorMidnight == [d \in Weekdays |-> IF d = 0 THEN <<0, 0>> ELSE <<23, 59>>]
EditorBadMinute == [d \in Weekdays |-> IF d = 6 THEN <<12, 60>> ELSE <<8, 15>>]
EditorNegative == [d \in Weekdays |-> IF d = 0 THEN <<-1, 30>> ELSE <<>>]

\* The AppSettings row written by init_db.
SeedSettings ==
    [allowed_pickups_per_day |-> 3, require_pickup_location_global |-> TRUE,
     min_required_photos |-> 1, photo_source_mode |-> "camera_or_upload"]

\* The links written by init_db: every seeded driver to every pharmacy.
SeedLinks == {<<u, p>> : u \in {"driver1", "driver3"}, p \in Pharmacies}

\* Instants of the week of Monday 2025-03-24 (CET until Sunday 01:00 UTC).
MonBeforeCutoff == At(7, 14, 49, 59)     \* Mon 15:49:59 local
MonAtCutoff == At(7, 14, 50, 0)          \* Mon 15:50:00 local
MonAfterCutoff == At(7, 14, 50, 1)       \* Mon 15:50:01 local
MonLateEvening == At(7, 23, 30, 0)       \* Mon 23:30 UTC = Tue 00:30 local
TueMidnightUtc == At(8, 0, 0, 0)         \* Tue 00:00 UTC = Tue 01:00 local
SunMorning == At(13, 9, 0, 0)            \* Sun 09:00 UTC = Sun 11:00 local (CEST)

NoInput == [schedule |-> NoCutoffs, now_utc |-> 0, cutoff_at_utc |-> None]
NoOutput == [helper |-> "none", cutoff_at_utc |-> None, timing_status |-> "none"]

------------------------------------------------------------------------------
(* Specification: submissions against a schedule the admin keeps editing   *)

TimingInstants == {MonBeforeCutoff, MonAtCutoff, MonAfterCutoff, SunMorning}

InitTiming ==
    /\ now = MonBeforeCutoff
    /\ cutoffs \in {c \in [Pharmacies -> {NoCutoffs, BackfilledCutoffs}] :
                       c["B1"] = BackfilledCutoffs}
    /\ links = SeedLinks
    /\ settings = SeedSettings
    /\ pickups = <<>>
    /\ inflight = <<>>
    /\ resp = NoResp
    /\ overlapped = {}
    /\ fin = NoInput
    /\ fout = NoOutput
    /\ gps_mode = SeedGpsModes
    /\ user_rows = SeedUsers
    /\ pharmacy_rows = SeedPharmacies

SubmitTiming == \E u \in {"driver3"} : create_pickup_check(u, PublicId("A1"), FormComplete)
Persist == \E k \in 1 .. MaxInFlight : create_pickup_persist(k)
EditCutoffs == \E form \in EditorForms : admin_update_pharmacy_cutoffs("admin", "A1", form)
TickTiming == \E t \in TimingInstants : Tick(t)

NextTiming == SubmitTiming \/ Persist \/ EditCutoffs \/ TickTiming

SpecTiming == InitTiming /\ [][NextTiming]_vars

\* The same with application restarts, each of which runs the migrations.
Startup == run_minimal_migrations

NextMigration == SubmitTiming \/ Persist \/ EditCutoffs \/ TickTiming \/ Startup

SpecMigration == InitTiming /\ [][NextMigration]_vars

------------------------------------------------------------------------------
(* Specification: the two timing helpers on their own                      *)

\* Instants around both Europe/Berlin transitions and around midnight.
SpringBeforeJump == At(13, 0, 30, 0)     \* Sun 2025-03-30 01:30 CET
SpringAfterJump == At(13, 1, 30, 0)      \* Sun 2025-03-30 03:30 CEST
SummerLateEvening == At(100, 22, 30, 0)  \* Wed 22:30 UTC = Thu 00:30 CEST
AutumnFirstPass == At(223, 0, 30, 0)     \* Sun 2025-10-26 02:30 CEST
AutumnSecondPass == At(223, 1, 30, 0)    \* Sun 2025-10-26 02:30 CET
AutumnFirstPassLate == At(223, 0, 45, 0) \* Sun 2025-10-26 02:45 CEST
AutumnSecondPassEarly == At(223, 1, 15, 0) \* Sun 2025-10-26 02:15 CET
AutumnEvening == At(223, 22, 30, 0)      \* Sun 2025-10-26 23:30 CET
AutumnNextDay == At(223, 23, 30, 0)      \* Mon 2025-10-27 00:30 CET

HelperInstants ==
    {MonBeforeCutoff, MonAtCutoff, MonAfterCutoff, MonLateEvening, TueMidnightUtc,
     SunMorning, SpringBeforeJump, SpringAfterJump, SummerLateEvening,
     AutumnFirstPass, AutumnSecondPass, AutumnFirstPassLate, AutumnSecondPassEarly,
     AutumnEvening, AutumnNextDay}

\* A different cutoff on every weekday, 08:00 on Monday .. 14:00 on Sunday.
StaggeredCutoffs == [d \in Weekdays |-> TimeOfDay(8 + d, 0, 0)]
\* A cutoff inside the hour that both transitions touch.
NightCutoffs == [d \in Weekdays |-> TimeOfDay(2, 30, 0)]

HelperSchedules == {NoCutoffs, BackfilledCutoffs, StaggeredCutoffs, NightCutoffs}

InitHelpers ==
    /\ now = MonBeforeCutoff
    /\ cutoffs = [p \in Pharmacies |-> BackfilledCutoffs]
    /\ links = SeedLinks
    /\ settings = SeedSettings
    /\ pickups = <<>>
    /\ inflight = <<>>
    /\ resp = NoResp
    /\ overlapped = {}
    /\ fin \in [schedule : HelperSchedules, now_utc : HelperInstants,
                cutoff_at_utc : {None} \cup HelperInstants]
    /\ fout = NoOutput
    /\ gps_mode = SeedGpsModes
    /\ user_rows = SeedUsers
    /\ pharmacy_rows = SeedPharmacies

\* timing_status = _compute_timing_status(now_utc, cutoff_at_utc) on the given cutoff.
Classify ==
    /\ fout = NoOutput
    /\ fout' = [helper |-> "_compute_timing_status",
                cutoff_at_utc |-> fin.cutoff_at_utc,
                timing_status |-> _compute_timing_status(fin.now_utc, fin.cutoff_at_utc)]
    /\ UNCHANGED <<now, cutoffs, links, settings, pickups, inflight, resp, overlapped, fin, gps_mode, user_rows, pharmacy_rows>>

\* cutoff_at_utc = _get_cutoff_for_pickup(pharmacy, now_utc), then the
\* classification of now_utc against it (lines 361-362).
Resolve ==
    /\ fout = NoOutput
    /\ LET c == _get_cutoff_for_pickup(fin.schedule, fin.now_utc)
       IN  fout' = [helper |-> "_get_cutoff_for_pickup",
                    cutoff_at_utc |-> c,
                    timing_status |-> _compute_timing_status(fin.now_utc, c)]
    /\ UNCHANGED <<now, cutoffs, links, settings, pickups, inflight, resp, overlapped, fin, gps_mode, user_rows, pharmacy_rows>>

NextHelpers == Classify \/ Resolve

SpecHelpers == InitHelpers /\ [][NextHelpers]_vars

------------------------------------------------------------------------------
(* Specification: startups over rows stored before the timing columns      *)
(* existed, with an admin editing the schedule in between                  *)

\* A pickups row inserted before cutoff_at_utc and timing_status were added:
\* ADD COLUMN leaves both NULL.
NullStatus == "null"
LegacyPickup(u, p, created_at) ==
    [user_id |-> u, pharmacy_id |-> p,
     latitude |-> None, longitude |-> None, comment |-> "<none>",
     status |-> "done", created_at |-> created_at,
     cutoff_at_utc |-> None, timing_status |-> NullStatus,
     photos |-> {1}]

InitBackfill ==
    /\ now = AutumnNextDay
    /\ cutoffs \in {c \in [Pharmacies -> HelperSchedules] : c["B1"] = BackfilledCutoffs}
    /\ links = SeedLinks
    /\ settings = SeedSettings
    /\ pickups \in {<<LegacyPickup("driver1", "A1", t)>> : t \in HelperInstants}
                 \cup {<<LegacyPickup("driver1", "A1", t), LegacyPickup("driver3", "B1", t)>> :
                          t \in HelperInstants}
    /\ inflight = <<>>
    /\ resp = NoResp
    /\ overlapped = {}
    /\ fin = NoInput
    /\ fout = NoOutput
    /\ gps_mode = SeedGpsModes
    /\ user_rows = SeedUsers
    /\ pharmacy_rows = SeedPharmacies

NextBackfill == Startup \/ EditCutoffs

SpecBackfill == InitBackfill /\ [][NextBackfill]_vars

------------------------------------------------------------------------------
(* Specification: the weekly cutoff editor posted with valid and invalid   *)
(* fields, by an admin and by a driver                                     *)

EditorCallers == {"admin", "driver1"}
EditorPharmacyIds == Pharmacies \cup {"Z9"}
EditorPosts ==
    EditorForms \cup {EditorMidnight, EditorBadMinute, EditorNegative}

InitEditor ==
    /\ now = MonBeforeCutoff
    /\ cutoffs \in [Pharmacies -> {NoCutoffs, BackfilledCutoffs}]
    /\ links = SeedLinks
    /\ settings = SeedSettings
    /\ pickups = <<>>
    /\ inflight = <<>>
    /\ resp = NoResp
    /\ overlapped = {}
    /\ fin = NoInput
    /\ fout = NoOutput
    /\ gps_mode = SeedGpsModes
    /\ user_rows = SeedUsers
    /\ pharmacy_rows = SeedPharmacies

PostCutoffs ==
    \E current \in EditorCallers : \E pharmacy_id \in EditorPharmacyIds :
        \E form \in EditorPosts :
            admin_update_pharmacy_cutoffs(current, pharmacy_id, form)

NextEditor == PostCutoffs \/ Startup

SpecEditor == InitEditor /\ [][NextEditor]_vars

------------------------------------------------------------------------------
(* Specification: drivers submitting against the daily quota               *)

MonLastSecondUtc == At(7, 23, 59, 59)    \* Mon 23:59:59 UTC = Tue 00:59:59 local

QuotaInstants == {MonBeforeCutoff, MonLastSecondUtc, TueMidnightUtc}

\* Stored allowed_pickups_per_day values: missing, negative, zero, one, two.
QuotaLimits == {None, -5, 0, 1, 2}

\* The (driver, pharmacy) pairs that submit.
QuotaPairs == {<<"driver1", "A1">>, <<"driver3", "A1">>, <<"driver1", "B1">>}

InitQuota ==
    /\ now = MonBeforeCutoff
    /\ cutoffs = [p \in Pharmacies |-> BackfilledCutoffs]
    /\ links = SeedLinks
    /\ settings \in {[SeedSettings EXCEPT !.allowed_pickups_per_day = a] : a \in QuotaLimits}
    /\ pickups = <<>>
    /\ inflight = <<>>
    /\ resp = NoResp
    /\ overlapped = {}
    /\ fin = NoInput
    /\ fout = NoOutput
    /\ gps_mode = SeedGpsModes
    /\ user_rows = SeedUsers
    /\ pharmacy_rows = SeedPharmacies

SubmitQuota == \E pair \in QuotaPairs : create_pickup_check(pair[1], PublicId(pair[2]), FormComplete)
TickQuota == \E t \in QuotaInstants : Tick(t)

NextQuota == SubmitQuota \/ Persist \/ TickQuota

SpecQuota == InitQuota /\ [][NextQuota]_vars

------------------------------------------------------------------------------
(* Specification: submissions while an admin assigns and unassigns         *)

AccessSubmitters == {"admin", "driver3"}
AccessPublicIds == {PublicId("A1"), PublicId("B1"), "pid-unknown"}
AccessCallers == {"admin", "driver3"}

InitAccess ==
    /\ now = MonBeforeCutoff
    /\ cutoffs = [p \in Pharmacies |-> BackfilledCutoffs]
    /\ links \in {{}, SeedLinks}
    /\ settings = SeedSettings
    /\ pickups = <<>>
    /\ inflight = <<>>
    /\ resp = NoResp
    /\ overlapped = {}
    /\ fin = NoInput
    /\ fout = NoOutput
    /\ gps_mode = SeedGpsModes
    /\ user_rows = SeedUsers
    /\ pharmacy_rows = SeedPharmacies

SubmitAccess ==
    \E u \in AccessSubmitters : \E pid \in AccessPublicIds :
        create_pickup_check(u, pid, FormComplete)
Assign ==
    \E current \in AccessCallers : \E p \in Pharmacies :
        admin_assign_driver_to_pharmacy_path(current, p, "driver3")
Unassign ==
    \E current \in AccessCallers : \E p \in Pharmacies :
        admin_unassign_driver_from_pharmacy(current, p, "driver3")

NextAccess == SubmitAccess \/ Persist \/ Assign \/ Unassign

SpecAccess == InitAccess /\ [][NextAccess]_vars

------------------------------------------------------------------------------
(* Specification: submissions with and without coordinates while an admin  *)
(* switches a driver's GPS override                                        *)

GpsSubmitters == {"driver1", "driver3"}
GpsForms == {FormComplete, FormNoGps, FormBadGps, FormZeroGps, FormNothing}
GpsModes == {"inherit", "require", "no", "always"}

InitGps ==
    /\ now = MonBeforeCutoff
    /\ cutoffs = [p \in Pharmacies |-> BackfilledCutoffs]
    /\ links = SeedLinks
    /\ settings \in {[SeedSettings EXCEPT !.require_pickup_location_global = g] :
                        g \in BOOLEAN}
    /\ pickups = <<>>
    /\ inflight = <<>>
    /\ resp = NoResp
    /\ overlapped = {}
    /\ fin = NoInput
    /\ fout = NoOutput
    /\ gps_mode = SeedGpsModes
    /\ user_rows = SeedUsers
    /\ pharmacy_rows = SeedPharmacies

\* One request at a time.
SubmitGps ==
    /\ inflight = <<>>
    /\ \E u \in GpsSubmitters : \E form \in GpsForms :
           create_pickup_check(u, PublicId("A1"), form)
SetGpsMode ==
    \E current \in {"admin", "driver3"} : \E mode \in GpsModes :
        admin_set_user_gps_mode(current, "driver3", mode)

NextGps == SubmitGps \/ Persist \/ SetGpsMode

SpecGps == InitGps /\ [][NextGps]_vars

------------------------------------------------------------------------------
(* Specification: submissions with usable, empty and unreadable photos     *)
(* while an admin changes the photo minimum                                *)

PhotoSubmitters == {"driver1", "history1"}
PhotoPublicIds == {PublicId("A1"), "pid-unknown"}
PhotoForms ==
    {FormComplete, FormSlots13, FormFour, FormOneGoodOneEmpty, FormAllUnusable,
     FormOneCorrupt, FormNoPhotos}
PhotoMinimums == {-1, 1, 2}

InitPhotos ==
    /\ now = MonBeforeCutoff
    /\ cutoffs = [p \in Pharmacies |-> BackfilledCutoffs]
    /\ links = SeedLinks
    /\ settings = SeedSettings
    /\ pickups = <<>>
    /\ inflight = <<>>
    /\ resp = NoResp
    /\ overlapped = {}
    /\ fin = NoInput
    /\ fout = NoOutput
    /\ gps_mode = SeedGpsModes
    /\ user_rows = SeedUsers
    /\ pharmacy_rows = SeedPharmacies

\* One request at a time.
SubmitPhotos ==
    /\ inflight = <<>>
    /\ \E u \in PhotoSubmitters : \E pid \in PhotoPublicIds : \E form \in PhotoForms :
           create_pickup_check(u, pid, form)
SetMinimum ==
    \E m \in PhotoMinimums : admin_update_settings("admin", SettingsForm(3, TRUE, m))

NextPhotos == SubmitPhotos \/ Persist \/ SetMinimum

SpecPhotos == InitPhotos /\ [][NextPhotos]_vars

------------------------------------------------------------------------------
(* Specification: submissions that fail several checks at once             *)

OrderSubmitters == {"driver1", "history1"}
OrderPublicIds == {PublicId("A1"), PublicId("B1"), "pid-unknown"}
OrderForms == {FormComplete, FormNoGps, FormNoPhotos, FormNothing}
OrderInstants == {MonBeforeCutoff, MonAfterCutoff}

InitOrder ==
    /\ now = MonBeforeCutoff
    /\ cutoffs = [p \in Pharmacies |-> BackfilledCutoffs]
    /\ links = SeedLinks
    /\ settings = [SeedSettings EXCEPT !.allowed_pickups_per_day = 1]
    /\ pickups = <<>>
    /\ inflight = <<>>
    /\ resp = NoResp
    /\ overlapped = {}
    /\ fin = NoInput
    /\ fout = NoOutput
    /\ gps_mode = SeedGpsModes
    /\ user_rows = SeedUsers
    /\ pharmacy_rows = SeedPharmacies

SubmitOrder ==
    \E u \in OrderSubmitters : \E pid \in OrderPublicIds : \E form \in OrderForms :
        create_pickup_check(u, pid, form)
TickOrder == \E t \in OrderInstants : Tick(t)

NextOrder == SubmitOrder \/ Persist \/ TickOrder

SpecOrder == InitOrder /\ [][NextOrder]_vars

------------------------------------------------------------------------------
(* Specification: drivers, a history user and an admin around stored       *)
(* pickups: submissions, assignments, photo and history views              *)

RoleSubmitters == {"driver1", "history1"}
RoleAssignees == {"driver1", "history1"}
RoleViewers == {"admin", "driver1", "driver3", "history1"}
RolePhotoSlots == {1, 2}
RolePharmacyFilters == {NoFilter, "A1"}
RoleDriverFilters == {NoFilter, "driver1"}

InitRoles ==
    /\ now = MonBeforeCutoff
    /\ cutoffs = [p \in Pharmacies |-> BackfilledCutoffs]
    /\ links = SeedLinks
    /\ settings = SeedSettings
    /\ pickups = <<>>
    /\ inflight = <<>>
    /\ resp = NoResp
    /\ overlapped = {}
    /\ fin = NoInput
    /\ fout = NoOutput
    /\ gps_mode = SeedGpsModes
    /\ user_rows = SeedUsers
    /\ pharmacy_rows = SeedPharmacies

\* One request at a time.
SubmitRoles ==
    /\ inflight = <<>>
    /\ \E u \in RoleSubmitters : create_pickup_check(u, PublicId("A1"), FormComplete)
AssignRoles == \E u \in RoleAssignees : admin_assign_driver_to_pharmacy_path("admin", "A1", u)
UnassignRoles == \E u \in RoleAssignees : admin_unassign_driver_from_pharmacy("admin", "A1", u)
ViewPhoto ==
    \E u \in RoleViewers : \E i \in 1 .. MaxPickups : \E idx \in RolePhotoSlots :
        get_pickup_photo(u, i, idx)
ViewHistory ==
    \E u \in RoleViewers : \E pid \in RolePharmacyFilters : \E did \in RoleDriverFilters :
        history_page(u, pid, did)

NextRoles == SubmitRoles \/ Persist \/ AssignRoles \/ UnassignRoles \/ ViewPhoto \/ ViewHistory

SpecRoles == InitRoles /\ [][NextRoles]_vars

------------------------------------------------------------------------------
(* Specification: an admin deactivating and deleting accounts and deleting *)
(* pharmacies while a driver and the admin submit pickups                  *)

AccountSubmitters == {"admin", "driver1"}
AccountCallers == {"admin", "driver1"}
AccountTargets == {"admin", "driver1"}

InitAccounts ==
    /\ now = MonBeforeCutoff
    /\ cutoffs = [p \in Pharmacies |-> BackfilledCutoffs]
    /\ links = {<<"driver1", "A1">>}
    /\ settings = SeedSettings
    /\ pickups = <<>>
    /\ inflight = <<>>
    /\ resp = NoResp
    /\ overlapped = {}
    /\ fin = NoInput
    /\ fout = NoOutput
    /\ gps_mode = SeedGpsModes
    /\ user_rows = SeedUsers
    /\ pharmacy_rows = SeedPharmacies

SubmitAccounts ==
    \E u \in AccountSubmitters : \E p \in Pharmacies :
        create_pickup_check(u, PublicId(p), FormComplete)
ToggleUser ==
    \E current \in AccountCallers : \E user_id \in AccountTargets :
        admin_toggle_user_active_path(current, user_id)
DeleteUser ==
    \E current \in AccountCallers : \E user_id \in AccountTargets :
        admin_delete_user(current, user_id)
DeletePharmacy ==
    \E current \in AccountCallers : \E pharmacy_id \in Pharmacies :
        admin_delete_pharmacy(current, pharmacy_id)
AssignAccounts == admin_assign_driver_to_pharmacy_path("admin", "A1", "driver1")
UnassignAccounts == admin_unassign_driver_from_pharmacy("admin", "A1", "driver1")

NextAccounts ==
    \/ SubmitAccounts \/ Persist \/ ToggleUser \/ DeleteUser \/ DeletePharmacy
    \/ AssignAccounts \/ UnassignAccounts

SpecAccounts == InitAccounts /\ [][NextAccounts]_vars

------------------------------------------------------------------------------
(* Specification: submissions to pharmacies an admin switches off and on   *)

ShopSubmitters == {"admin", "driver1"}
ShopCallers == {"admin", "driver1"}

InitShops ==
    /\ now = MonBeforeCutoff
    /\ cutoffs = [p \in Pharmacies |-> BackfilledCutoffs]
    /\ links = SeedLinks
    /\ settings = SeedSettings
    /\ pickups = <<>>
    /\ inflight = <<>>
    /\ resp = NoResp
    /\ overlapped = {}
    /\ fin = NoInput
    /\ fout = NoOutput
    /\ gps_mode = SeedGpsModes
    /\ user_rows = SeedUsers
    /\ pharmacy_rows = SeedPharmacies

SubmitShops ==
    \E u \in ShopSubmitters : \E p \in Pharmacies :
        create_pickup_check(u, PublicId(p), FormComplete)
TogglePharmacy ==
    \E current \in ShopCallers : \E pharmacy_id \in Pharmacies \cup {"Z9"} :
        admin_toggle_pharmacy_active_path(current, pharmacy_id)

NextShops == SubmitShops \/ Persist \/ TogglePharmacy

SpecShops == InitShops /\ [][NextShops]_vars

------------------------------------------------------------------------------
(* Specification: an admin posting the settings form while a driver        *)
(* submits pickups with one and with four photos                           *)

SettingsCallers == {"admin", "driver1"}
SettingsAllowed == {-1, 2}
SettingsMinimums == {-1, 0, 4, 5}
SettingsSourceModes == {"camera_only", "camera_or_upload", "gallery"}
SettingsSubmissions == {FormComplete, FormFour}

InitSettings ==
    /\ now = MonBeforeCutoff
    /\ cutoffs = [p \in Pharmacies |-> BackfilledCutoffs]
    /\ links = SeedLinks
    /\ settings = SeedSettings
    /\ pickups = <<>>
    /\ inflight = <<>>
    /\ resp = NoResp
    /\ overlapped = {}
    /\ fin = NoInput
    /\ fout = NoOutput
    /\ gps_mode = SeedGpsModes
    /\ user_rows = SeedUsers
    /\ pharmacy_rows = SeedPharmacies

PostSettings ==
    \E current \in SettingsCallers : \E allowed \in SettingsAllowed :
        \E photos \in SettingsMinimums : \E mode \in SettingsSourceModes :
            admin_update_settings(current,
                [SettingsForm(allowed, FALSE, photos) EXCEPT !.photo_source_mode = mode])
SubmitSettings ==
    \E form \in SettingsSubmissions :
        /\ inflight = <<>>
        /\ create_pickup_check("driver1", PublicId("A1"), form)

NextSettings == PostSettings \/ SubmitSettings \/ Persist

SpecSettings == InitSettings /\ [][NextSettings]_vars

------------------------------------------------------------------------------
(* Claims                                                                  *)

\* The cutoff today's schedule of the pickup's pharmacy would give it.
CutoffUnderLiveSchedule(row) == _get_cutoff_for_pickup(cutoffs[row.pharmacy_id], row.created_at)

\* C1: once create_pickup has committed a Pickup, no later create_pickup or
\* admin_update_pharmacy_cutoffs step changes its cutoff_at_utc or its
\* timing_status; the steps of SpecTiming are exactly these two handlers and
\* the passing of time.
C1_FrozenUnderScheduleEdits ==
    [][\A i \in DOMAIN pickups :
          /\ i \in DOMAIN pickups'
          /\ pickups'[i].cutoff_at_utc = pickups[i].cutoff_at_utc
          /\ pickups'[i].timing_status = pickups[i].timing_status]_vars

\* C1 witness: a committed pickup whose pharmacy's schedule has since been
\* edited so that the live schedule would give another cutoff (moved, added
\* or cleared), while the stored one is still in place.
C1_Witness ==
    /\ resp.handler = "admin_cutoffs" /\ resp.code = 200
    /\ \E i \in DOMAIN pickups :
          /\ pickups[i].cutoff_at_utc # None
          /\ CutoffUnderLiveSchedule(pickups[i]) # pickups[i].cutoff_at_utc
    /\ \E i \in DOMAIN pickups :
          /\ pickups[i].cutoff_at_utc = None
          /\ CutoffUnderLiveSchedule(pickups[i]) # None

\* C2: run_minimal_migrations changes cutoff_at_utc and timing_status of no
\* pickup that create_pickup has classified, a pickup frozen as no_cutoff
\* included. Step 4a rewrites every row WHERE cutoff_at_utc IS NULL, so a
\* startup after such a pickup was stored breaks this.
C2_MigrationKeepsClassified ==
    [][run_minimal_migrations =>
          \A i \in DOMAIN pickups :
              pickups[i].timing_status \in {"on_time", "late", "no_cutoff"} =>
                  /\ pickups'[i].cutoff_at_utc = pickups[i].cutoff_at_utc
                  /\ pickups'[i].timing_status = pickups[i].timing_status]_vars

\* C3: every persisted pickup is classified as its own created_at and
\* cutoff_at_utc say: no_cutoff exactly without a cutoff, on_time exactly when
\* created_at <= cutoff_at_utc, late exactly when created_at > cutoff_at_utc.
C3_StatusMatchesStoredCutoff ==
    \A i \in DOMAIN pickups :
        LET row == pickups[i]
        IN  /\ row.timing_status \in {"on_time", "late", "no_cutoff"}
            /\ (row.timing_status = "no_cutoff") <=> (row.cutoff_at_utc = None)
            /\ (row.timing_status = "on_time") <=>
                   (row.cutoff_at_utc # None /\ row.created_at <= row.cutoff_at_utc)
            /\ (row.timing_status = "late") <=>
                   (row.cutoff_at_utc # None /\ row.created_at > row.cutoff_at_utc)

\* C3 witness: pickups of all three classes are stored, one of them created at
\* the very instant of its cutoff.
C3_Witness ==
    /\ \E i \in DOMAIN pickups :
          pickups[i].created_at = pickups[i].cutoff_at_utc /\ pickups[i].timing_status = "on_time"
    /\ \E i \in DOMAIN pickups : pickups[i].timing_status = "late"
    /\ \E i \in DOMAIN pickups : pickups[i].timing_status = "no_cutoff"

\* C6: when the schedule a submission loaded has None for the local weekday of
\* the instant it is created at, the pickup is stored without a cutoff and as
\* no_cutoff, whatever the time of day and the other six values.
C6_NoneWeekdayIsNoCutoff ==
    [][\A k \in DOMAIN inflight :
          (/\ create_pickup_persist(k)
           /\ Len(pickups') = Len(pickups) + 1
           /\ inflight[k].schedule[Weekday(ToLocal(now).wall)] = None)
          => /\ pickups'[Len(pickups')].cutoff_at_utc = None
             /\ pickups'[Len(pickups')].timing_status = "no_cutoff"]_vars

\* C6 witness: a pickup stored as no_cutoff on a Sunday under a schedule whose
\* other days have cutoffs, and one stored as no_cutoff on a Monday afternoon.
C6_Witness ==
    /\ \E i \in DOMAIN pickups :
          /\ pickups[i].created_at = SunMorning
          /\ pickups[i].timing_status = "no_cutoff"
          /\ cutoffs[pickups[i].pharmacy_id] = BackfilledCutoffs
    /\ \E i \in DOMAIN pickups :
          /\ pickups[i].created_at = MonAfterCutoff
          /\ pickups[i].timing_status = "no_cutoff"

\* C4: _compute_timing_status answers for every input, with one of the three
\* statuses: no_cutoff exactly when no cutoff is given, else on_time up to and
\* including the cutoff instant and late strictly after it.
C4_ClassifierTotalAndExact ==
    fout.helper = "_compute_timing_status" =>
        /\ fout.timing_status \in {"on_time", "late", "no_cutoff"}
        /\ (fin.cutoff_at_utc = None) => fout.timing_status = "no_cutoff"
        /\ (fin.cutoff_at_utc # None /\ fin.now_utc <= fin.cutoff_at_utc)
               => fout.timing_status = "on_time"
        /\ (fin.cutoff_at_utc # None /\ fin.now_utc > fin.cutoff_at_utc)
               => fout.timing_status = "late"

\* C4 witness: the boundary instant itself has been classified, as on time.
C4_Witness ==
    /\ fout.helper = "_compute_timing_status"
    /\ fin.cutoff_at_utc = fin.now_utc
    /\ fout.timing_status = "on_time"

\* A wall clock reading that no instant shows (the hour skipped in spring).
InSpringGap(wall) == DstStart + Hour <= wall /\ wall < DstStart + 2 * Hour

\* C5: when the schedule has a value c for the local weekday of the instant,
\* _get_cutoff_for_pickup returns a UTC instant of (local date of the instant,
\* c): it lies one of Berlin's two offsets before that reading, and Berlin's
\* clock shows that reading at it unless the reading is skipped in spring.
\* With Monday 15:50, 15:49:59 local on Monday is on_time and 15:50:01 is late.
C5_CutoffIsTodaysLocalTime ==
    fout.helper = "_get_cutoff_for_pickup" =>
        LET local == ToLocal(fin.now_utc).wall
            c == fin.schedule[Weekday(local)]
            wanted == DateOf(local) * Day + c
        IN  /\ c # None =>
                /\ fout.cutoff_at_utc # None
                /\ fout.cutoff_at_utc + Hour = wanted \/ fout.cutoff_at_utc + 2 * Hour = wanted
                /\ ~InSpringGap(wanted) => ToLocal(fout.cutoff_at_utc).wall = wanted
            /\ (fin.schedule = BackfilledCutoffs /\ fin.now_utc = MonBeforeCutoff)
                   => fout.timing_status = "on_time"
            /\ (fin.schedule = BackfilledCutoffs /\ fin.now_utc = MonAfterCutoff)
                   => fout.timing_status = "late"

\* C5 witness: a cutoff resolved at Monday 23:30 UTC, which is Tuesday in
\* Berlin, under a schedule whose Monday and Tuesday values differ.
C5_Witness ==
    /\ fout.helper = "_get_cutoff_for_pickup"
    /\ fin.now_utc = MonLateEvening
    /\ fin.schedule = StaggeredCutoffs
    /\ fout.cutoff_at_utc = At(8, 8, 0, 0)

\* N = max(1, allowed_pickups_per_day), a missing value counting as 1.
QuotaN == IF settings.allowed_pickups_per_day >= 1 THEN settings.allowed_pickups_per_day ELSE 1

\* The UTC calendar day of an instant, and the committed pickups of a driver
\* at a pharmacy created on a UTC day.
UtcDay(t) == t \div Day
PickupsOn(u, p, day) ==
    {i \in DOMAIN pickups :
        /\ pickups[i].user_id = u
        /\ pickups[i].pharmacy_id = p
        /\ UtcDay(pickups[i].created_at) = day}

\* C7: for a (driver, pharmacy) pair whose submissions never overlapped, no
\* UTC day holds more than N committed pickups (the (N+1)-th is rejected), and
\* a QuotaExceeded answer is given only when the day already holds N (each of
\* the first N passes); a stored limit below 1 or missing acts as N = 1.
C7_SequentialQuota ==
    /\ \A pair \in QuotaPairs : \A t \in QuotaInstants :
          pair \notin overlapped =>
              Cardinality(PickupsOn(pair[1], pair[2], UtcDay(t))) <= QuotaN
    /\ (/\ resp.handler = "create_pickup"
        /\ resp.code = 429
        /\ <<resp.user, resp.pharmacy>> \notin overlapped)
       => Cardinality(PickupsOn(resp.user, resp.pharmacy, UtcDay(resp.at))) = QuotaN

\* C7 witness: with a stored limit of 0 the first submission of a pair was
\* stored and its second one, made after the first had finished, got 429.
C7_Witness ==
    /\ settings.allowed_pickups_per_day = 0
    /\ resp.handler = "create_pickup" /\ resp.code = 429
    /\ <<resp.user, resp.pharmacy>> \notin overlapped
    /\ Cardinality(PickupsOn(resp.user, resp.pharmacy, UtcDay(resp.at))) = 1

\* C8: a QuotaExceeded answer means that the committed pickups of this very
\* driver at this very pharmacy created on the UTC day of the request already
\* number N; pickups of other drivers, other pharmacies or other UTC days do
\* not count.
C8_QuotaCountsOwnPairToday ==
    (resp.handler = "create_pickup" /\ resp.code = 429) =>
        Cardinality(PickupsOn(resp.user, resp.pharmacy, UtcDay(resp.at))) >= QuotaN

\* C8 witness: a driver who used the whole allowance at a pharmacy on Monday
\* (UTC) has a pickup stored there again on Tuesday (UTC), the same local
\* day, although another driver also has a pickup at that pharmacy.
C8_Witness ==
    \E pair \in QuotaPairs :
        /\ Cardinality(PickupsOn(pair[1], pair[2], UtcDay(MonLastSecondUtc))) = QuotaN
        /\ PickupsOn(pair[1], pair[2], UtcDay(TueMidnightUtc)) # {}
        /\ \E i \in DOMAIN pickups :
              /\ pickups[i].user_id # pair[1]
              /\ pickups[i].pharmacy_id = pair[2]
        /\ \E i \in PickupsOn(pair[1], pair[2], UtcDay(MonLastSecondUtc)) :
              \E j \in PickupsOn(pair[1], pair[2], UtcDay(TueMidnightUtc)) :
                  DateOf(ToLocal(pickups[i].created_at).wall)
                      = DateOf(ToLocal(pickups[j].created_at).wall)

\* C9: a commit that takes a pair's pickups of one UTC day above the limit is
\* the commit of a request that was in flight together with another request
\* of the same pair; without such an overlap no commit exceeds the limit.
C9_ExcessOnlyByOverlap ==
    [][\A k \in DOMAIN inflight :
          LET r == inflight[k]
          IN  (/\ create_pickup_persist(k)
               /\ Len(pickups') = Len(pickups) + 1
               /\ Cardinality({i \in DOMAIN pickups' :
                      /\ pickups'[i].user_id = r.user
                      /\ pickups'[i].pharmacy_id = r.pharmacy
                      /\ UtcDay(pickups'[i].created_at) = UtcDay(now)}) > r.limit)
              => <<r.user, r.pharmacy>> \in overlapped]_vars

\* C9 witness: two requests of one pair both read a count below the limit and
\* both committed, leaving limit + 1 pickups of that pair on one UTC day.
C9_Witness ==
    \E pair \in QuotaPairs : \E t \in QuotaInstants :
        /\ Cardinality(PickupsOn(pair[1], pair[2], UtcDay(t))) = QuotaN + 1
        /\ pair \in overlapped
        /\ resp.handler = "create_pickup" /\ resp.code = 200
        /\ resp.count < resp.limit

\* C10: a create_pickup call for an existing pharmacy P by a user who is no
\* admin and has no link to P when the access check runs is answered 403 and
\* writes nothing; a call by an admin, or by a user linked to P at that
\* moment, is never answered 403: it goes on to persist or fails a later
\* check. Only calls that passed this gate ever commit a pickup.
C10_AccessGate ==
    [][/\ \A u \in AccessSubmitters : \A pid \in AccessPublicIds :
            LET p == PharmacyByPublicId(pid)
                allowed == Role(u) = "admin" \/ <<u, p>> \in links
            IN  (create_pickup_check(u, pid, FormComplete) /\ p # "missing") =>
                   /\ ~allowed => /\ resp'.handler = "create_pickup"
                                  /\ resp'.user = u /\ resp'.pharmacy = p
                                  /\ resp'.code = 403
                                  /\ pickups' = pickups
                                  /\ inflight' = inflight
                   /\ allowed => \/ Len(inflight') = Len(inflight) + 1
                                 \/ resp'.code \in {422, 429}
       /\ pickups' # pickups =>
            \E k \in DOMAIN inflight :
                /\ create_pickup_persist(k)
                /\ pickups'[Len(pickups')].user_id = inflight[k].user
                /\ pickups'[Len(pickups')].pharmacy_id = inflight[k].pharmacy]_vars

\* C10 witness: driver3 has a committed pickup at A1 from the time the link
\* existed, the link has been removed since, and the driver's latest
\* submission to A1 was answered 403.
C10_Witness ==
    /\ \E i \in DOMAIN pickups :
          pickups[i].user_id = "driver3" /\ pickups[i].pharmacy_id = "A1"
    /\ <<"driver3", "A1">> \notin links
    /\ resp = [NoResp EXCEPT !.handler = "create_pickup", !.user = "driver3",
                             !.pharmacy = "A1", !.code = 403, !.at = now,
                             !.error = "Not allowed to access this pharmacy.",
                             !.count = resp.count, !.limit = resp.limit]

\* Form values float() reads as a number.
NumericText == {"52.52", " 13.40 ", "0"}

\* C11: the location requirement of a submission is the user's override when
\* it is set and the global flag otherwise, and create_pickup answers 422
\* "location required" exactly when the pharmacy exists, the user may access
\* it, enough photos were sent, location is required and latitude or
\* longitude is missing, empty or not a number; such input is never an error
\* of its own.
C11_GpsRequirement ==
    [][\A u \in GpsSubmitters : \A form \in GpsForms :
          create_pickup_check(u, PublicId("A1"), form) =>
              LET required == IF gps_mode[u] = "unset"
                              THEN settings.require_pickup_location_global
                              ELSE gps_mode[u] = "true"
                  absent == form.lat \notin NumericText \/ form.lon \notin NumericText
                  earlier == /\ (Role(u) = "admin" \/ <<u, "A1">> \in links)
                             /\ Cardinality({i \in Slots :
                                    form.images[i] \notin {"absent", "noname"}})
                                    >= settings.min_required_photos
                  refused == /\ inflight' = inflight
                             /\ resp'.code = 422
                             /\ resp'.error =
                                    "Location (latitude and longitude) is required for this pickup."
              IN  /\ refused <=> (earlier /\ required /\ absent)
                  /\ \/ Len(inflight') = Len(inflight) + 1
                     \/ /\ inflight' = inflight
                        /\ resp'.handler = "create_pickup"
                        /\ resp'.code \in {403, 404, 422, 429}]_vars

\* C11 witness: with the global flag on, driver3 has a stored pickup without
\* coordinates from the time the override was "no"; the override is unset
\* again and driver3's latest submission without coordinates got the 422.
C11_Witness ==
    /\ settings.require_pickup_location_global
    /\ gps_mode["driver3"] = "unset"
    /\ \E i \in DOMAIN pickups :
          pickups[i].user_id = "driver3" /\ pickups[i].latitude = None
    /\ resp.handler = "create_pickup" /\ resp.user = "driver3" /\ resp.code = 422
    /\ resp.error = "Location (latitude and longitude) is required for this pickup."

\* The upload slots that carry bytes, and the slots whose bytes are an image
\* (stated from the form, apart from the handler's own filters).
NonEmptyContent(images) == {i \in Slots : images[i] \in {"ok", "corrupt"}}
UsablePhotos(images) == {i \in Slots : images[i] = "ok"}

\* C12: slots count toward min_required_photos by their content, so no
\* submission with fewer non-empty slots than the minimum it was checked
\* against ever commits a pickup. create_pickup counts the slots that have a
\* filename (line 283) and so lets a zero-byte upload count.
C12_MinimumCountsContent ==
    [][\A k \in DOMAIN inflight :
          (create_pickup_persist(k) /\ Len(pickups') = Len(pickups) + 1)
              => Cardinality(NonEmptyContent(inflight[k].images)) >= inflight[k].min_photos]_vars

\* C13: when photos are required and none of the supplied ones can be stored
\* (zero bytes, or compress_image fails), the call answers 422 and neither
\* the pickup nor a photo is persisted; when at least one can be stored, the
\* others are skipped and the pickup commits with exactly the storable ones.
C13_RollbackWhenNoPhotoSurvives ==
    [][\A k \in DOMAIN inflight :
          create_pickup_persist(k) =>
              LET r == inflight[k]
                  usable == UsablePhotos(r.images)
              IN  /\ (r.min_photos > 0 /\ usable = {}) =>
                         /\ pickups' = pickups
                         /\ resp'.code = 422
                         /\ resp'.error = "None of the uploaded photos could be processed."
                  /\ usable # {} =>
                         /\ Len(pickups') = Len(pickups) + 1
                         /\ pickups'[Len(pickups')].photos = usable
                         /\ resp'.code = 200]_vars

\* C13 witness: a pickup sent with an unreadable photo among three is stored
\* with the other two, and the latest call, none of whose photos could be
\* stored, was answered 422.
C13_Witness ==
    /\ \E i \in DOMAIN pickups : pickups[i].photos = {2, 4}
    /\ resp.handler = "create_pickup" /\ resp.code = 422
    /\ resp.error = "None of the uploaded photos could be processed."

\* C14: a step that answers a create_pickup call with 403, 404, 422 or 429
\* leaves the stored pickups and photos as they were; the stored rows change
\* only by one successful call appending one pickup that carries every photo
\* saved by that call, all earlier rows staying as they are.
C14_AllOrNothing ==
    [][/\ (resp' # resp /\ resp'.handler = "create_pickup"
              /\ resp'.code \in {403, 404, 422, 429}) => pickups' = pickups
       /\ pickups' # pickups =>
            /\ Len(pickups') = Len(pickups) + 1
            /\ \A i \in DOMAIN pickups : pickups'[i] = pickups[i]
            /\ resp'.handler = "create_pickup" /\ resp'.code = 200
            /\ \E k \in DOMAIN inflight :
                  /\ create_pickup_persist(k)
                  /\ pickups'[Len(pickups')].photos = UsablePhotos(inflight[k].images)]_vars

\* C14 witness: rejections of every kind have happened around stored pickups:
\* a pickup with four photos is stored and the latest call was rolled back.
C14_Witness ==
    /\ \E i \in DOMAIN pickups : pickups[i].photos = {1, 2, 3, 4}
    /\ \E i \in DOMAIN pickups : pickups[i].photos = {1}
    /\ resp.handler = "create_pickup" /\ resp.code = 422
    /\ resp.error = "None of the uploaded photos could be processed."
    /\ Len(pickups) = 2

FirstFailure(u, pid, form) ==
    LET p == PharmacyByPublicId(pid)
        required == IF gps_mode[u] = "unset" THEN settings.require_pickup_location_global
                    ELSE gps_mode[u] = "true"
        sent == {i \in Slots : form.images[i] \notin {"absent", "noname"}}
        today == {i \in DOMAIN pickups :
                     /\ pickups[i].user_id = u
                     /\ pickups[i].pharmacy_id = p
                     /\ UtcDay(pickups[i].created_at) = UtcDay(now)}
    IN  IF p = "missing" THEN <<404, "Pharmacy not found">>
        ELSE IF Role(u) # "admin" /\ <<u, p>> \notin links
             THEN <<403, "Not allowed to access this pharmacy.">>
        ELSE IF Cardinality(sent) < settings.min_required_photos
             THEN <<422, "At least min_photos photo(s) are required.">>
        ELSE IF required /\ (form.lat \notin NumericText \/ form.lon \notin NumericText)
             THEN <<422, "Location (latitude and longitude) is required for this pickup.">>
        ELSE IF Cardinality(today) >= QuotaN
             THEN <<429, "Daily pickup limit reached for this pharmacy and driver.">>
        ELSE <<0, "none">>

\* C15: a submission is answered by the first failing check in the order
\* pharmacy (404), access (403), photos (422), GPS (422), quota (429), and
\* writes nothing; only a submission that passed all five goes on, and its
\* created_at, cutoff and status are taken from the clock read after the
\* checks, in the step that stores the row.
C15_CheckOrder ==
    [][/\ \A u \in OrderSubmitters : \A pid \in OrderPublicIds : \A form \in OrderForms :
            create_pickup_check(u, pid, form) =>
                LET first == FirstFailure(u, pid, form)
                IN  /\ pickups' = pickups
                    /\ first[1] = 0 => Len(inflight') = Len(inflight) + 1
                    /\ first[1] # 0 =>
                          /\ inflight' = inflight
                          /\ resp'.handler = "create_pickup" /\ resp'.user = u
                          /\ resp'.code = first[1] /\ resp'.error = first[2]
       /\ \A k \in DOMAIN inflight :
            (create_pickup_persist(k) /\ Len(pickups') = Len(pickups) + 1) =>
                LET row == pickups'[Len(pickups')]
                IN  /\ row.created_at = now
                    /\ row.created_at >= inflight[k].checked_at
                    /\ row.cutoff_at_utc = _get_cutoff_for_pickup(inflight[k].schedule, now)
                    /\ row.timing_status =
                           _compute_timing_status(row.created_at, row.cutoff_at_utc)]_vars

\* C15 witness: a submission without coordinates made when the pair's quota
\* was already used up got the 422 of the GPS check, not the 429, and the
\* stored pickup of that pair was checked before the cutoff and created
\* after it.
C15_Witness ==
    /\ resp.handler = "create_pickup" /\ resp.code = 422
    /\ resp.error = "Location (latitude and longitude) is required for this pickup."
    /\ resp.count >= resp.limit
    /\ \E i \in DOMAIN pickups :
          /\ pickups[i].user_id = resp.user /\ pickups[i].pharmacy_id = resp.pharmacy
          /\ pickups[i].timing_status = "late"

\* C16: no stored pickup has a user of role history as its driver. The
\* submission route asks for a logged-in user only; a history user whom an
\* admin has linked to a pharmacy passes the access gate like a driver.
C16_HistoryNeverCreates ==
    \A i \in DOMAIN pickups : Role(pickups[i].user_id) # "history"

\* C17: a stored photo is returned to an admin, to a history user, and to a
\* driver exactly when the driver created the pickup it belongs to. The
\* handler asks a driver for a link to the pickup's pharmacy instead.
C17_DriverSeesOwnPhotosOnly ==
    [][\A u \in RoleViewers : \A i \in DOMAIN pickups : \A idx \in RolePhotoSlots :
          (get_pickup_photo(u, i, idx) /\ idx \in pickups[i].photos) =>
              (resp'.code = 200 <=>
                  \/ Role(u) \in {"admin", "history"}
                  \/ pickups[i].user_id = u)]_vars

\* C18: for the same filters the history page lists to a history user the
\* pickups it lists to an admin. The handler restricts every caller who is
\* no admin to the pickups that caller created.
C18_HistoryUserSeesAll ==
    [][\A u \in RoleViewers : \A pid \in RolePharmacyFilters : \A did \in RoleDriverFilters :
          (history_page(u, pid, did) /\ Role(u) = "history") =>
              /\ resp'.code = 200
              /\ resp'.listed = HistoryRows("admin", pid, did)]_vars

\* C20: for a fixed cutoff, once an instant is classified late every later
\* instant is classified late as well: a later pickup instant never turns
\* late back into on_time.
C20_LateStaysLate ==
    (fout.helper = "_compute_timing_status" /\ fout.timing_status = "late") =>
        \A t2 \in HelperInstants :
            t2 >= fin.now_utc =>
                _compute_timing_status(t2, fin.cutoff_at_utc) = "late"

\* C20 witness: an instant one second after the cutoff was classified late,
\* and instants days and months after it are there to compare with.
C20_Witness ==
    /\ fout.helper = "_compute_timing_status" /\ fout.timing_status = "late"
    /\ fin.cutoff_at_utc = MonAtCutoff /\ fin.now_utc = MonAfterCutoff
    /\ \E t2 \in HelperInstants : t2 > fin.now_utc + Day

\* C21: for a row without a stored cutoff the backfill assigns the cutoff
\* _get_cutoff_for_pickup returns for the row's created_at under the
\* pharmacy's schedule, and the status _compute_timing_status returns for it.
\* The backfill reads created_at, a UTC reading, as a Europe/Berlin wall clock
\* reading, so a row created between local midnight and UTC midnight gets the
\* cutoff of the day before.
C21_BackfillAppliesSubmissionRule ==
    [][run_minimal_migrations =>
          \A i \in DOMAIN pickups :
              BackfillTouches(pickups[i]) =>
                  LET row == pickups[i]
                      c == _get_cutoff_for_pickup(cutoffs'[row.pharmacy_id], row.created_at)
                  IN  /\ pickups'[i].cutoff_at_utc = c
                      /\ pickups'[i].timing_status =
                             _compute_timing_status(row.created_at, c)]_vars

\* C22: run_minimal_migrations is idempotent: in the state one run leaves, a
\* second run right after it changes no pharmacy schedule and no pickup's
\* cutoff_at_utc or timing_status.
C22_MigrationIdempotent ==
    [][run_minimal_migrations =>
          /\ MigratedSchedules(cutoffs') = cutoffs'
          /\ MigratedPickups(MigratedSchedules(cutoffs'), pickups') = pickups']_vars

\* C22 witness: a run has backfilled a Sunday row at a pharmacy without a
\* Sunday cutoff, the row every later run selects again (cutoff_at_utc IS
\* NULL), next to a schedule step 3a has filled.
C22_Witness ==
    /\ \E i \in DOMAIN pickups :
          /\ pickups[i].pharmacy_id = "A1"
          /\ pickups[i].created_at = SunMorning
          /\ pickups[i].timing_status = "no_cutoff"
          /\ BackfillTouches(pickups[i])
    /\ cutoffs["A1"] = BackfilledCutoffs

\* C25: a weekday cutoff the admin has just cleared in the cutoff editor (None,
\* "no cutoff that day") is None after a run_minimal_migrations that follows
\* the edit, Monday .. Sunday. Step 3a COALESCEs every NULL of Monday ..
\* Saturday to 15:50 or 12:00, whoever left the NULL there.
C25_NoneSurvivesMigration ==
    [][(run_minimal_migrations /\ resp.handler = "admin_cutoffs" /\ resp.code = 200) =>
          \A d \in Weekdays :
              cutoffs[resp.pharmacy][d] = None => cutoffs'[resp.pharmacy][d] = None]_vars

\* What the cutoff editor accepts in one field: nothing, or hours 0..23 and
\* minutes 0..59 around a colon.
ValidField(value) ==
    \/ Len(value) = 0
    \/ Len(value) = 2 /\ value[1] \in 0 .. 23 /\ value[2] \in 0 .. 59

\* C23: a cutoff editor post by an admin for an existing pharmacy with seven
\* valid fields replaces all seven stored values by the parsed ones (empty
\* means no cutoff) and touches no other pharmacy; with any invalid field it
\* answers 400 and leaves every stored value as it was.
C23_CutoffEditAllOrNothing ==
    [][\A p \in Pharmacies : \A form \in EditorPosts :
          admin_update_pharmacy_cutoffs("admin", p, form) =>
              IF \A d \in Weekdays : ValidField(form[d])
              THEN /\ resp'.code = 200
                   /\ \A d \in Weekdays :
                         cutoffs'[p][d] =
                             IF Len(form[d]) = 0 THEN None
                             ELSE form[d][1] * Hour + form[d][2] * 60
                   /\ \A q \in Pharmacies \ {p} : cutoffs'[q] = cutoffs[q]
              ELSE /\ resp'.code = 400
                   /\ cutoffs' = cutoffs]_vars

\* C23 witness: a post with an invalid field was answered 400 while the
\* pharmacy still holds, on all seven weekdays, the values an earlier valid
\* post (00:00 on Monday, 23:59 otherwise) had stored.
C23_Witness ==
    /\ resp.handler = "admin_cutoffs" /\ resp.user = "admin"
    /\ resp.pharmacy = "A1" /\ resp.code = 400
    /\ cutoffs["A1"] = [d \in Weekdays |->
                           IF d = 0 THEN TimeOfDay(0, 0, 0) ELSE TimeOfDay(23, 59, 0)]

\* C24: no step removes a users or pharmacies row that a pickup or an
\* assignment link references, nor the account of the admin who asked for the
\* deletion; so after every step each stored pickup and each link refers to a
\* user and a pharmacy that exist.
C24_NoDanglingReferences ==
    [][/\ \A u \in DOMAIN user_rows \ DOMAIN user_rows' :
             /\ \A i \in DOMAIN pickups : pickups[i].user_id # u
             /\ \A l \in links : l[1] # u
             /\ resp'.user # u
       /\ \A p \in DOMAIN pharmacy_rows \ DOMAIN pharmacy_rows' :
             /\ \A i \in DOMAIN pickups : pickups[i].pharmacy_id # p
             /\ \A l \in links : l[2] # p
       /\ \A i \in DOMAIN pickups' :
             /\ pickups'[i].user_id \in DOMAIN user_rows'
             /\ pickups'[i].pharmacy_id \in DOMAIN pharmacy_rows'
       /\ \A l \in links' :
             l[1] \in DOMAIN user_rows' /\ l[2] \in DOMAIN pharmacy_rows']_vars

\* C24 witness: the admin has deleted pharmacy B1, which nothing referenced,
\* and was then refused the deletion of driver1, who has no link left but a
\* stored pickup.
C24_Witness ==
    /\ "B1" \notin DOMAIN pharmacy_rows
    /\ resp.handler = "admin_delete_user" /\ resp.user = "admin" /\ resp.code = 400
    /\ resp.error = "Cannot delete user with pickups or pharmacy assignments"
    /\ "driver1" \in DOMAIN user_rows
    /\ \E i \in DOMAIN pickups : pickups[i].user_id = "driver1"
    /\ \A l \in links : l[1] # "driver1"

\* C28: a create_pickup request that starts while its user's is_active is
\* false is answered 401 and neither goes on to persist nor stores anything;
\* and no step deactivates the account of the user who asked for it.
C28_DeactivatedUserRejected ==
    [][/\ \A u \in AccountSubmitters : \A p \in Pharmacies :
             (/\ create_pickup_check(u, PublicId(p), FormComplete)
              /\ u \in DOMAIN user_rows
              /\ ~user_rows[u]) =>
                 /\ resp'.handler = "create_pickup" /\ resp'.user = u
                 /\ resp'.code = 401
                 /\ inflight' = inflight
                 /\ pickups' = pickups
       /\ \A a \in DOMAIN user_rows \cap DOMAIN user_rows' :
             (user_rows[a] /\ ~user_rows'[a]) => resp'.user # a]_vars

\* C28 witness: driver1, who stored a pickup while active and is still linked
\* to the pharmacy, has been deactivated and has just been answered 401.
C28_Witness ==
    /\ "driver1" \in DOMAIN user_rows /\ ~user_rows["driver1"]
    /\ <<"driver1", "A1">> \in links
    /\ \E i \in DOMAIN pickups : pickups[i].user_id = "driver1"
    /\ resp.handler = "create_pickup" /\ resp.user = "driver1"
    /\ resp.pharmacy = "A1" /\ resp.code = 401

\* C29: create_pickup commits no pickup for a pharmacy whose is_active flag is
\* false, a pharmacy that is off both in the row the request loaded and when
\* the pickup is committed, and that the tasks page does not list for the
\* user. create_pickup looks the pharmacy up by public_id alone and never
\* reads is_active.
C29_InactivePharmacyAcceptsNothing ==
    [][\A k \in 1 .. MaxInFlight :
          (create_pickup_persist(k) /\ Len(pickups') = Len(pickups) + 1) =>
              \/ inflight[k].is_active
              \/ pharmacy_rows[inflight[k].pharmacy]
              \/ inflight[k].pharmacy \in TasksPharmacies(inflight[k].user)]_vars

InFlightK(pair) == IF pair \in overlapped THEN MaxInFlight ELSE 1

\* C26: with limit N and at most K requests of a (driver, pharmacy) pair in
\* flight at any one time, the pair's committed pickups of one UTC day never
\* number more than N + K - 1.
C26_BoundedExcess ==
    \A pair \in QuotaPairs : \A t \in QuotaInstants :
        Cardinality(PickupsOn(pair[1], pair[2], UtcDay(t)))
            <= QuotaN + InFlightK(pair) - 1

\* C26 witness: a pair whose requests overlapped holds N + K - 1 pickups on the
\* current UTC day, and its next request has just been answered 429.
C26_Witness ==
    \E pair \in overlapped :
        /\ Cardinality(PickupsOn(pair[1], pair[2], UtcDay(now)))
               = QuotaN + MaxInFlight - 1
        /\ resp.handler = "create_pickup" /\ resp.code = 429
        /\ resp.user = pair[1] /\ resp.pharmacy = pair[2] /\ resp.at = now

\* The local calendar day of an instant.
LocalDay(t) == DateOf(ToLocal(t).wall)

\* C27: under one schedule _get_cutoff_for_pickup returns the same cutoff for
\* every instant of one local calendar day, days with a clock change included,
\* and so within one local day no instant after a late one is on_time.
\* On the day the clocks go back, instants inside the repeated hour resolve a
\* cutoff inside that hour to its second pass and all other instants to its
\* first pass.
C27_OneCutoffPerLocalDay ==
    fout.helper = "_get_cutoff_for_pickup" =>
        \A t2 \in HelperInstants :
            LocalDay(t2) = LocalDay(fin.now_utc) =>
                LET c2 == _get_cutoff_for_pickup(fin.schedule, t2)
                IN  /\ c2 = fout.cutoff_at_utc
                    /\ (t2 >= fin.now_utc /\ fout.timing_status = "late") =>
                           _compute_timing_status(t2, c2) # "on_time"

====
